---- MODULE Spec2Model ----
(***************************************************************************)
(* Policy cursors of the PowerRAFT client (client/Policy.js,               *)
(* client/LinearPolicy.js): InteractivePolicy and LinearPolicy walk the    *)
(* transition graph of a solved MDP policy and report the visited state    *)
(* snapshots to the network graph.                                         *)
(*                                                                         *)
(* JavaScript arrays are modelled as TLA+ sequences; At(arr, i) reads the  *)
(* element at the 0-based JavaScript index i.  A cursor object is a        *)
(* record holding the fields of `this`; a method is an operator from the   *)
(* record before the call to the record after it.  A thrown exception is   *)
(* recorded in the field `thrown`, and nothing of the method runs after    *)
(* it.                                                                     *)
(***************************************************************************)
EXTENDS Integers, Sequences, FiniteSets, TLC

VARIABLES
    cursor,     \* the fields of the cursor object (`this`)
    kind,       \* "interactive" (InteractivePolicy) or "linear" (LinearPolicy)
    pc,         \* the method whose loop is running ("constructor",
                \* "updateSteps", "energizationProbabilities", "setState"
                \* of the graph), "failed"
                \* when the constructor threw, else "ready"
    current,    \* the local variable `current` of getStepsFromPolicy
    lastOp,     \* the method called last
    queue,      \* the local variable `queue` of _energizationProbabilities
    results,    \* the local variable `results` of _energizationProbabilities
    query,      \* the arguments of the probability query called last
    returned,   \* what the probability query called last returned or threw
    graph,      \* the fields of the network graph object
    twin,       \* a second cursor over the policy model of the first
    view,       \* the controls InteractivePolicyView rendered last
    panel,      \* the policy screen: the requests issued and in flight,
                \* the policy loaded, the policy of the view constructed
    editor      \* update mode: the failure probabilities of the nodes

vars == <<cursor, kind, pc, current, lastOp, queue, results, query, returned,
          graph, twin, view, panel, editor>>

\* the state of the side panel
uiVars == <<view, panel, editor>>

(***************************************************************************)
(* Bounds of the model.                                                    *)
(***************************************************************************)
NumStates == 2
MaxActions == 2
MaxOutcomes == 2
MaxHist == 2
MaxSize == 4
MaxUpdateSize == 1
MaxSteps == 4
MaxWalkSize == 2
NumEngineStates == 3
MaxDepth == 2
NumNodes == 3
MaxSnapshots == 3
MaxRequests == 3

(***************************************************************************)
(* Program constants and JavaScript values.                                *)
(***************************************************************************)
\* the offset of 1-based state indexes, as in the value commented out
ACTION_OFFSET_OneBased == -1

ACTION_OFFSET == 0

\* `undefined` where a number is expected (a state index, an action key,
\* an outcome index).
Undefined == -1

\* `null` passed as the outcome index.
Null == -2

\* `undefined` where an action (a list of outcomes) is expected.  Actions of
\* the policies considered have at least one outcome.
UndefinedAction == <<>>

\* `undefined` where the action table of a state is expected.
UndefinedActions == <<UndefinedAction>>

\* `undefined` where a history entry is expected.
UndefinedEntry == [state |-> Undefined, actionNum |-> Undefined, next |-> Undefined]

\* `undefined` where a state snapshot is expected.
UndefinedSnapshot == <<>>

NoError == "none"
TypeError == "TypeError"
NoPreviousState == "There's no previous state"

At(arr, i) == arr[i + 1]

HasIndex(arr, i) == i >= 0 /\ i < Len(arr)

\* A JavaScript default parameter `next = 0` takes its default when the
\* argument is undefined.
DefaultNext(next) == IF next = Undefined THEN 0 ELSE next

(***************************************************************************)
(* Policy data as received from the server (README: states, transitions,   *)
(* policy).  An outcome is <<next state index, probability in percent>>.   *)
(***************************************************************************)
StatusTable ==
    << <<"U", "U", "U", "U">>, <<"TG0", "TG0", "D", "U">>,
       <<"TG0", "U", "D", "U">>, <<"TG0", "D", "D", "U">>,
       <<"D", "U", "U", "U">>, <<"D", "D", "D", "U">> >>

StateTable(n) == [i \in 1..n |-> StatusTable[i]]

EvenProbability(n) == 100 \div n

OutcomeLists(n) ==
    UNION { { [j \in 1..len |-> <<targets[j], EvenProbability(len)>>] :
                targets \in [1..len -> 0..(n - 1)] } : len \in 1..MaxOutcomes }

ActionTables(n) ==
    UNION { [1..k -> OutcomeLists(n)] : k \in 0..MaxActions }

StateEntries(n) ==
    { [actions |-> a, recommended |-> r] :
        a \in ActionTables(n), r \in {Undefined} \cup 0..MaxActions - 1 }

WellFormedEntry(e) ==
    e.recommended = Undefined \/ e.recommended < Len(e.actions)

\* the number of outcomes of an action table
RECURSIVE TableSize(_)
TableSize(actions) ==
    IF actions = <<>> THEN 0 ELSE Len(Head(actions)) + TableSize(Tail(actions))

RECURSIVE EntriesSize(_)
EntriesSize(f) ==
    IF f = <<>> THEN 0 ELSE TableSize(Head(f).actions) + EntriesSize(Tail(f))

\* the policies over n states with at most `size` outcomes in all
Policies(n, size) ==
    { [states |-> StateTable(n),
       transitions |-> [i \in 1..n |-> f[i].actions],
       policy |-> [i \in 1..n |-> f[i].recommended]] :
        f \in { g \in [1..n -> {e \in StateEntries(n) : WellFormedEntry(e)}] :
                  EntriesSize(g) <= size } }

\* the policies a cursor is constructed from
LoadedPolicies == Policies(NumStates, MaxSize)

\* the policies of a session in which the policy is regenerated; the
\* regenerated state table may be smaller
RegeneratedPolicies == UNION { Policies(n, MaxUpdateSize) : n \in 1..NumStates }

(***************************************************************************)
(* Field reads of the cursor.                                              *)
(***************************************************************************)
StateAt(c, s) ==
    IF HasIndex(c.states, s) THEN At(c.states, s) ELSE UndefinedSnapshot

TransitionsAt(c, s) ==
    IF HasIndex(c.transitions, s) THEN At(c.transitions, s) ELSE UndefinedActions

PolicyAt(c, s) ==
    IF HasIndex(c.policy, s) THEN At(c.policy, s) ELSE Undefined

ActionAt(actions, actionNum) ==
    IF HasIndex(actions, actionNum) THEN At(actions, actionNum) ELSE UndefinedAction

\* a[0] of an outcome pair a
Target(a) == a[1]

Throw(c, e) == [c EXCEPT !.thrown = e]

(***************************************************************************)
(* Graph.setState(hist), as the cursor sees it: the graph receives the     *)
(* snapshot list; reading the length of an undefined snapshot throws, and  *)
(* so does the loop over lastEnergizedBranches, which is assigned in the   *)
(* transition from one snapshot to the next only, when the list has fewer  *)
(* than two snapshots.                                                     *)
(***************************************************************************)
GraphSetState(c, hist) ==
    LET c1 == [c EXCEPT !.shown = hist]
    IN  IF (\E i \in DOMAIN hist : hist[i] = UndefinedSnapshot) \/ Len(hist) < 2
        THEN Throw(c1, TypeError)
        ELSE c1

\* this.previousStates.map(s => this.states[s.state])
HistSnapshots(c) ==
    [i \in 1..Len(c.previousStates) |-> StateAt(c, c.previousStates[i].state)]

\* arr.slice(from, to)
Slice(arr, from, to) ==
    SubSeq(arr, from + 1, IF to < Len(arr) THEN to ELSE Len(arr))

(***************************************************************************)
(* InteractivePolicy                                                       *)
(***************************************************************************)
\* setNext committing the selected outcome: the target becomes the current state
setNext_Commit(c, i) ==
    LET c1 == [c EXCEPT !.next = i]
    IN  IF c1.action = UndefinedAction \/ ~HasIndex(c1.action, c1.next)
        THEN Throw(c1, TypeError)
        ELSE LET target == Target(At(c1.action, c1.next)) + ACTION_OFFSET
                 c2 == [c1 EXCEPT !.state = target]
             IN  GraphSetState(c2,
                     HistSnapshots(c2) \o <<StateAt(c1, c1.state), StateAt(c2, target)>>)

setNext(c, i) ==
    LET c1 == [c EXCEPT !.next = i]
    IN  IF c1.action = UndefinedAction \/ ~HasIndex(c1.action, c1.next)
        THEN Throw(c1, TypeError)
        ELSE LET nextState ==
                   StateAt(c1, Target(At(c1.action, c1.next)) + ACTION_OFFSET)
             IN  GraphSetState(c1,
                     HistSnapshots(c1) \o <<StateAt(c1, c1.state), nextState>>)

\* the end test without the test of the number of outcomes
IsEnd_AnyLength(action, state) ==
    IF action # UndefinedAction
    THEN Target(At(action, 0)) + ACTION_OFFSET = state
    ELSE TRUE

IsEnd(action, state) ==
    IF action # UndefinedAction
    THEN Len(action) = 1 /\ Target(At(action, 0)) + ACTION_OFFSET = state
    ELSE TRUE

\* setAction recording the action chosen as the action the policy recommends
setAction_RecordChoice(c, actionNum, next) ==
    LET c1 == [c EXCEPT !.actionNum = actionNum,
                        !.policy = IF HasIndex(c.policy, c.state)
                                   THEN [c.policy EXCEPT ![c.state + 1] = actionNum]
                                   ELSE c.policy]
    IN  IF c1.actions = UndefinedActions
        THEN Throw(c1, TypeError)
        ELSE LET c2 == [c1 EXCEPT !.action = ActionAt(c1.actions, actionNum)]
                 c3 == [c2 EXCEPT !.end = IsEnd(c2.action, c2.state)]
             IN  IF next = Null \/ c3.end
                 THEN GraphSetState(c3,
                          HistSnapshots(c3) \o <<StateAt(c3, c3.state)>>
                          \o (IF c3.end THEN <<StateAt(c3, c3.state)>> ELSE <<>>))
                 ELSE setNext(c3, next)

\* setAction reporting the last snapshot once when the cursor is at end
setAction_NoFreeze(c, actionNum, next) ==
    LET c1 == [c EXCEPT !.actionNum = actionNum]
    IN  IF c1.actions = UndefinedActions
        THEN Throw(c1, TypeError)
        ELSE LET c2 == [c1 EXCEPT !.action = ActionAt(c1.actions, actionNum)]
                 c3 == [c2 EXCEPT !.end = IsEnd(c2.action, c2.state)]
             IN  IF next = Null \/ c3.end
                 THEN GraphSetState(c3,
                          HistSnapshots(c3) \o <<StateAt(c3, c3.state)>>)
                 ELSE setNext(c3, next)

setAction(c, actionNum, next) ==
    LET c1 == [c EXCEPT !.actionNum = actionNum]
    IN  IF c1.actions = UndefinedActions
        THEN Throw(c1, TypeError)
        ELSE LET c2 == [c1 EXCEPT !.action = ActionAt(c1.actions, actionNum)]
                 c3 == [c2 EXCEPT !.end = IsEnd(c2.action, c2.state)]
             IN  IF next = Null \/ c3.end
                 THEN GraphSetState(c3,
                          HistSnapshots(c3) \o <<StateAt(c3, c3.state)>>
                          \o (IF c3.end THEN <<StateAt(c3, c3.state)>> ELSE <<>>))
                 ELSE setNext(c3, next)

setState(c, state, next) ==
    LET c1 == [c EXCEPT !.state = state, !.actions = TransitionsAt(c, state)]
    IN  setAction(c1, PolicyAt(c1, c1.state), DefaultNext(next))

setStateAndAction(c, state, action, next) ==
    LET c1 == [c EXCEPT !.state = state, !.actions = TransitionsAt(c, state)]
    IN  setAction(c1, action, DefaultNext(next))

HistoryEntry(c) ==
    [state |-> c.state, actionNum |-> c.actionNum, next |-> c.next]

\* nextState keeping the outcome index selected in the state it leaves
nextState_KeepNext(c) ==
    LET c1 == [c EXCEPT !.previousStates = Append(@, HistoryEntry(c))]
    IN  IF c1.action = UndefinedAction \/ ~HasIndex(c1.action, c1.next)
        THEN Throw(c1, TypeError)
        ELSE setState(c1, Target(At(c1.action, c1.next)) + ACTION_OFFSET, c1.next)

\* nextState pushing the history entry after the move
nextState_PushAfter(c) ==
    IF c.action = UndefinedAction \/ ~HasIndex(c.action, c.next)
    THEN Throw(c, TypeError)
    ELSE LET c1 == setState(c, Target(At(c.action, c.next)) + ACTION_OFFSET,
                            Undefined)
         IN  [c1 EXCEPT !.previousStates = Append(@, HistoryEntry(c1))]

nextState(c) ==
    LET c1 == [c EXCEPT !.previousStates = Append(@, HistoryEntry(c))]
    IN  IF c1.action = UndefinedAction \/ ~HasIndex(c1.action, c1.next)
        THEN Throw(c1, TypeError)
        ELSE setState(c1, Target(At(c1.action, c1.next)) + ACTION_OFFSET, Undefined)

\* previousState restoring the state through setState: the action the user
\* had selected is replaced by the recommended one
previousState_ViaSetState(c) ==
    IF c.previousStates = <<>>
    THEN Throw(c, NoPreviousState)
    ELSE LET prev == c.previousStates[Len(c.previousStates)]
             c1 == [c EXCEPT !.previousStates = SubSeq(@, 1, Len(@) - 1)]
         IN  setState(c1, prev.state, prev.next)

\* previousState without the test of the popped entry: reading prev.state of
\* undefined throws a TypeError
previousState_NoCheck(c) ==
    IF c.previousStates = <<>>
    THEN Throw(c, TypeError)
    ELSE LET prev == c.previousStates[Len(c.previousStates)]
             c1 == [c EXCEPT !.previousStates = SubSeq(@, 1, Len(@) - 1)]
         IN  setStateAndAction(c1, prev.state, prev.actionNum, prev.next)

previousState(c) ==
    IF c.previousStates = <<>>
    THEN Throw(c, NoPreviousState)
    ELSE LET prev == c.previousStates[Len(c.previousStates)]
             c1 == [c EXCEPT !.previousStates = SubSeq(@, 1, Len(@) - 1)]
         IN  setStateAndAction(c1, prev.state, prev.actionNum, prev.next)

nextStateAvailable(c) == ~c.end

\* The object after `for(let key in policy) this[key] = policy[key]` and the
\* two assignments of the constructor, before setState(0).
NewCursor(policy) ==
    [states |-> policy.states,
     transitions |-> policy.transitions,
     policy |-> policy.policy,
     end |-> FALSE,
     previousStates |-> <<>>,
     state |-> Undefined,
     actions |-> UndefinedActions,
     actionNum |-> Undefined,
     action |-> UndefinedAction,
     next |-> Undefined,
     steps |-> <<>>,
     fullHistory |-> <<>>,
     index |-> Undefined,
     shown |-> <<>>,
     thrown |-> NoError]

InteractivePolicy(policy) == setState(NewCursor(policy), 0, Undefined)



\* update(policy, next = 0): Object.assign(this, policy), then setAction
update(c, policy, next) ==
    LET c1 == [c EXCEPT !.states = policy.states,
                        !.transitions = policy.transitions,
                        !.policy = policy.policy]
    IN  setAction(c1, PolicyAt(c1, c1.state), DefaultNext(next))

(***************************************************************************)
(* LinearPolicy                                                            *)
(***************************************************************************)
\* goTo placing the cursor on steps[index] itself, after the entries of
\* steps[0..index-1]
goTo_OnStep(c, index) ==
    LET c1 == [c EXCEPT !.index = index]
    IN  IF c1.index = 0
        THEN setState([c1 EXCEPT !.previousStates = <<>>], At(c1.steps, 0), Null)
        ELSE setState([c1 EXCEPT !.previousStates =
                                      Slice(c1.fullHistory, 0, c1.index)],
                      At(c1.steps, c1.index), Undefined)

\* goTo appending the entries to the history it finds instead of replacing it
goTo_KeepHistory(c, index) ==
    LET c1 == [c EXCEPT !.index = index]
    IN  IF c1.index = 0
        THEN setState([c1 EXCEPT !.previousStates = <<>>], At(c1.steps, 0), Null)
        ELSE setState([c1 EXCEPT !.previousStates =
                                      @ \o Slice(c1.fullHistory, 0, c1.index - 1)],
                      At(c1.steps, c1.index - 1), Undefined)

goTo(c, index) ==
    LET c1 == [c EXCEPT !.index = index]
    IN  IF c1.index = 0
        THEN setState([c1 EXCEPT !.previousStates = <<>>], At(c1.steps, 0), Null)
        ELSE setState([c1 EXCEPT !.previousStates =
                                      Slice(c1.fullHistory, 0, c1.index - 1)],
                      At(c1.steps, c1.index - 1), Undefined)

\* getStepsFromPolicy up to its loop
getStepsBegin(c) == [c EXCEPT !.steps = <<0>>, !.fullHistory = <<>>]

\* getStepsFromPolicy after its loop
getStepsEnd(c, cur) ==
    [c EXCEPT !.steps = Append(@, cur),
              !.fullHistory =
                  Append(@, IF @ = <<>> THEN UndefinedEntry ELSE @[Len(@)])]

\* the loop following the last outcome of the recommended action
getStepsIteration_LastOutcome(c, cur) ==
    IF ~(cur < Len(c.states))
    THEN [exit |-> "done", c |-> c, current |-> cur]
    ELSE LET actions == TransitionsAt(c, cur)
             actionNum == PolicyAt(c, cur)
             action == ActionAt(actions, actionNum)
         IN  IF action = UndefinedAction
             THEN [exit |-> "throw", c |-> Throw(c, TypeError), current |-> cur]
             ELSE LET next == Target(At(action, Len(action) - 1)) + ACTION_OFFSET
                      c1 == [c EXCEPT !.fullHistory =
                                Append(@, [state |-> cur, actionNum |-> actionNum,
                                           next |-> 0])]
                  IN  IF next = cur
                      THEN [exit |-> "done", c |-> c, current |-> cur]
                      ELSE IF StateAt(c1, next) = UndefinedSnapshot
                      THEN [exit |-> "done", c |-> c1, current |-> cur]
                      ELSE [exit |-> "loop",
                            c |-> [c1 EXCEPT !.steps = Append(@, next)],
                            current |-> next]

\* The outcome of one evaluation of the loop condition and the loop body, with
\* `cur` the value of `current`: the loop goes on ("loop"), is left ("done")
\* or throws ("throw").
getStepsIteration(c, cur) ==
    IF ~(cur < Len(c.states))
    THEN [exit |-> "done", c |-> c, current |-> cur]
    ELSE LET actions == TransitionsAt(c, cur)
             actionNum == PolicyAt(c, cur)
             action == ActionAt(actions, actionNum)
         IN  IF action = UndefinedAction
             THEN [exit |-> "throw", c |-> Throw(c, TypeError), current |-> cur]
             ELSE LET next == Target(At(action, 0)) + ACTION_OFFSET
                      c1 == [c EXCEPT !.fullHistory =
                                Append(@, [state |-> cur, actionNum |-> actionNum,
                                           next |-> 0])]
                  IN  IF next = cur
                      THEN [exit |-> "done", c |-> c, current |-> cur]
                      ELSE IF StateAt(c1, next) = UndefinedSnapshot
                      THEN [exit |-> "done", c |-> c1, current |-> cur]
                      ELSE [exit |-> "loop",
                            c |-> [c1 EXCEPT !.steps = Append(@, next)],
                            current |-> next]

\* new InteractivePolicy(this.graph, this, false) copies every field of the
\* linear cursor; out.setState(this.state) follows
convertToInteractive(c) == setState(c, c.state, Undefined)

(***************************************************************************)
(* The probability queries of InteractivePolicy.  A probability is an      *)
(* integer number of units, One units making 1; the probability a[1] of an *)
(* outcome is in percent.  A product runs over at most MaxDepth + 1        *)
(* outcome probabilities, so no division below leaves a remainder.         *)
(***************************************************************************)
Percent == 100

One == Percent ^ (MaxDepth + 1)

\* a[1] * value
Times(probability, value) == probability * (value \div Percent)

RangeError == "RangeError"

\* the value of a call that threw a TypeError, where a number is expected
Threw == -3

Returned(value) == [thrown |-> NoError, value |-> value]

Raised(e) == [thrown |-> e, value |-> <<>>]

\* Object.keys of a state snapshot: the node indexes
NodeIndexes(c) == 0..Len(At(c.states, 0)) - 1

StateIndexes(c) == 0..Len(c.states) - 1

\* actions[this.policy[state]] with actions = this.transitions[state]
PolicyAction(c, state) == ActionAt(TransitionsAt(c, state), PolicyAt(c, state))

\* the sum of the terms of a reduce((a,b) => a+b, 0); a term that threw has
\* thrown out of the whole expression
RECURSIVE SumTerms(_)
SumTerms(terms) ==
    IF terms = <<>> THEN 0
    ELSE IF Head(terms) = Threw \/ SumTerms(Tail(terms)) = Threw THEN Threw
    ELSE Head(terms) + SumTerms(Tail(terms))

\* the term of outcome a in the sum of _energizationProbability
RECURSIVE energizationProbability(_, _, _, _)
OutcomeTerm(c, state, a, nodeIndex, depth) ==
    IF Target(a) - 1 = state THEN 0
    ELSE LET sub == energizationProbability(c, Target(a) - 1, nodeIndex, depth - 1)
         IN  IF sub = Threw THEN Threw ELSE Times(a[2], sub)

energizationProbability(c, state, nodeIndex, depth) ==
    IF ~HasIndex(c.states, state)
    THEN Threw
    ELSE LET s == At(At(c.states, state), nodeIndex)
             action == PolicyAction(c, state)
         IN  IF depth = 0 THEN (IF s = "D" \/ s = "U" THEN 0 ELSE One)
             ELSE IF s = "D" THEN 0
             ELSE IF s # "U" THEN One
             ELSE IF action = UndefinedAction THEN 0
             ELSE IF Len(action) = 1 /\ Target(At(action, 0)) - 1 = state THEN 0
             ELSE SumTerms([j \in 1..Len(action) |->
                              OutcomeTerm(c, state, action[j], nodeIndex, depth)])

\* the items the loop body of _energizationProbabilities pushes for the
\* outcomes of `action`, from an item of state `state`
Pushes(action, item) ==
    LET Followed(j) == Target(action[j]) - 1 # item.state
        RECURSIVE From(_)
        From(j) ==
            IF j > Len(action) THEN <<>>
            ELSE (IF Followed(j)
                  THEN <<[state |-> Target(action[j]) - 1,
                          p |-> Times(action[j][2], item.p),
                          depth |-> item.depth + 1]>>
                  ELSE <<>>) \o From(j + 1)
    IN  From(1)

\* results[depth], seeded when it is undefined; depth is at most the length
\* of the list, the queue being first in, first out
Seeded(res, depth) ==
    IF HasIndex(res, depth) THEN res ELSE Append(res, At(res, depth - 1))

\* the loop seeding results[depth] with 0
energizationProbabilitiesIteration_SeedZero(c, q, res, nodeIndex) ==
    IF q = <<>>
    THEN [exit |-> "done", queue |-> q, results |-> res]
    ELSE LET item == Head(q)
             rest == Tail(q)
             res1 == IF HasIndex(res, item.depth) THEN res ELSE Append(res, 0)
         IN  IF ~HasIndex(c.states, item.state)
             THEN [exit |-> "throw", queue |-> rest, results |-> res1]
             ELSE LET s == At(At(c.states, item.state), nodeIndex)
                      action == PolicyAction(c, item.state)
                  IN  IF s = "D"
                      THEN [exit |-> "loop", queue |-> rest, results |-> res1]
                      ELSE IF s # "U"
                      THEN [exit |-> "loop", queue |-> rest,
                            results |-> [res1 EXCEPT ![item.depth + 1] = @ + item.p]]
                      ELSE IF action = UndefinedAction
                      THEN [exit |-> "loop", queue |-> rest, results |-> res1]
                      ELSE [exit |-> "loop", queue |-> rest \o Pushes(action, item),
                            results |-> res1]

\* the loop adding the probability of an item whose node is Damaged
energizationProbabilitiesIteration_CountDamaged(c, q, res, nodeIndex) ==
    IF q = <<>>
    THEN [exit |-> "done", queue |-> q, results |-> res]
    ELSE LET item == Head(q)
             rest == Tail(q)
             res1 == Seeded(res, item.depth)
         IN  IF ~HasIndex(c.states, item.state)
             THEN [exit |-> "throw", queue |-> rest, results |-> res1]
             ELSE LET s == At(At(c.states, item.state), nodeIndex)
                      action == PolicyAction(c, item.state)
                  IN  IF s # "U"
                      THEN [exit |-> "loop", queue |-> rest,
                            results |-> [res1 EXCEPT ![item.depth + 1] = @ + item.p]]
                      ELSE IF action = UndefinedAction
                      THEN [exit |-> "loop", queue |-> rest, results |-> res1]
                      ELSE [exit |-> "loop", queue |-> rest \o Pushes(action, item),
                            results |-> res1]

\* One evaluation of the loop condition and the loop body of
\* _energizationProbabilities: the loop goes on ("loop"), is left ("done") or
\* throws ("throw").
energizationProbabilitiesIteration(c, q, res, nodeIndex) ==
    IF q = <<>>
    THEN [exit |-> "done", queue |-> q, results |-> res]
    ELSE LET item == Head(q)
             rest == Tail(q)
             res1 == Seeded(res, item.depth)
         IN  IF ~HasIndex(c.states, item.state)
             THEN [exit |-> "throw", queue |-> rest, results |-> res1]
             ELSE LET s == At(At(c.states, item.state), nodeIndex)
                      action == PolicyAction(c, item.state)
                  IN  IF s = "D"
                      THEN [exit |-> "loop", queue |-> rest, results |-> res1]
                      ELSE IF s # "U"
                      THEN [exit |-> "loop", queue |-> rest,
                            results |-> [res1 EXCEPT ![item.depth + 1] = @ + item.p]]
                      ELSE IF action = UndefinedAction
                      THEN [exit |-> "loop", queue |-> rest, results |-> res1]
                      ELSE [exit |-> "loop", queue |-> rest \o Pushes(action, item),
                            results |-> res1]

\* vec of _allEnergizationProb: 0 for D, 1 for an energized node, null for U
StatusVector(snapshot) ==
    [i \in 1..Len(snapshot) |->
        IF snapshot[i] = "D" THEN 0 ELSE IF snapshot[i] # "U" THEN One ELSE Null]

\* vec.map(s => s==null ? 0 : s)
NullsToZero(vec) == [i \in 1..Len(vec) |-> IF vec[i] = Null THEN 0 ELSE vec[i]]

\* reduce((a,b) => a.map((n,i) => n+b[i]), vec.map(() => 0)) over the
\* returns of the recursive calls; the first call that threw has thrown out
\* of the whole expression
RECURSIVE SumVectors(_, _)
SumVectors(terms, zero) ==
    IF terms = <<>> THEN Returned(zero)
    ELSE IF Head(terms).thrown # NoError THEN Head(terms)
    ELSE LET rest == SumVectors(Tail(terms), zero)
         IN  IF rest.thrown # NoError THEN rest
             ELSE Returned([i \in 1..Len(zero) |->
                              Head(terms).value[i] + rest.value[i]])

\* _allEnergizationProb(state), `nest` calls deep.  The recursion has no
\* depth argument: a call that comes back to a state it is computing recurses
\* until the call stack is exhausted (RangeError); MaxDepth nested calls pass
\* through more states than the table has.
RECURSIVE allEnergizationProb(_, _, _)
allEnergizationProb(c, state, nest) ==
    IF nest > MaxDepth THEN Raised(RangeError)
    ELSE IF ~HasIndex(c.states, state) THEN Raised(TypeError)
    ELSE LET vec == StatusVector(At(c.states, state))
             action == PolicyAction(c, state)
         IN  IF action = UndefinedAction THEN Returned(NullsToZero(vec))
             ELSE IF Len(action) = 1 /\ Target(At(action, 0)) - 1 = state
             THEN Returned(NullsToZero(vec))
             ELSE SumVectors(
                    [j \in 1..Len(action) |->
                        LET a == action[j]
                            mul == [i \in 1..Len(vec) |->
                                      IF vec[i] = Null THEN a[2]
                                      ELSE a[2] * (vec[i] \div One)]
                            sub == allEnergizationProb(c, Target(a) - 1, nest + 1)
                        IN  IF sub.thrown # NoError THEN sub
                            ELSE Returned([i \in 1..Len(vec) |->
                                             Times(mul[i], sub.value[i])])],
                    [i \in 1..Len(vec) |-> 0])

\* cumulativePfs: allEnergizationProb().map(a => 1-a)
cumulativePfs(c, state) ==
    LET all == allEnergizationProb(c, state, 0)
    IN  IF all.thrown # NoError THEN all
        ELSE Returned([i \in 1..Len(all.value) |-> One - all.value[i]])

(***************************************************************************)
(* The network graph (class Graph): the nodes carry a status, a branch     *)
(* joins the two nodes of branch.nodes, in the direction nodes[0] ->       *)
(* nodes[1] when it is energized, and an external branch joins a resource  *)
(* to a node.  A graph object is a record of these fields; `hist` holds    *)
(* the snapshots the loop of setState has read, its last entry being the   *)
(* local variable lastState, and `assigned` the values the local variable  *)
(* lastEnergizedBranches has had, one list of assignments for each         *)
(* transition between two snapshots.                                       *)
(***************************************************************************)
\* new Error("State length is not equal to nodes.length ...")
LengthError == "Error"

\* a status that is neither Damaged nor Unknown
EnergizedStatus == "E"

Statuses == {"U", EnergizedStatus, "D"}

\* The network of the graph view: the path 0 - 1 - 2, a resource attached
\* to node 0, nothing energized.
Network ==
    [status |-> [i \in 1..NumNodes |-> 0],
     nodes |-> [b \in 1..NumNodes - 1 |-> <<b - 1, b>>],
     energized |-> [b \in 1..NumNodes - 1 |-> 0],
     externalBranches |-> <<0>>,
     hist |-> <<>>,
     assigned |-> <<>>,
     thrown |-> NoError]

\* this.nodes[i].branches: render() pushes every branch, in the order of
\* this.branches, to the lists of its two nodes
NodeBranches(g, i) ==
    SelectSeq([b \in 1..Len(g.nodes) |-> b - 1],
              LAMBDA b : i \in {At(g.nodes, b)[1], At(g.nodes, b)[2]})

\* b.branch.nodes[0] == i ? b.branch.nodes[1] : b.branch.nodes[0]
OtherNode(g, b, i) ==
    IF At(g.nodes, b)[1] = i THEN At(g.nodes, b)[2] ELSE At(g.nodes, b)[1]

\* _setState giving the status 2 to every energized node, energized
\* before or not
_setState_AlwaysNew(g, state) ==
    IF state = UndefinedSnapshot THEN Throw(g, TypeError)
    ELSE IF Len(state) # Len(g.status) THEN Throw(g, LengthError)
    ELSE [g EXCEPT !.status =
             [i \in 1..Len(state) |->
                 IF state[i] = "D" THEN -1
                 ELSE IF state[i] = "U" THEN 0
                 ELSE 2]]

\* Graph._setState(state)
_setState(g, state) ==
    IF state = UndefinedSnapshot THEN Throw(g, TypeError)
    ELSE IF Len(state) # Len(g.status) THEN Throw(g, LengthError)
    ELSE [g EXCEPT !.status =
             [i \in 1..Len(state) |->
                 IF state[i] = "D" THEN -1
                 ELSE IF state[i] = "U" THEN 0
                 ELSE IF g.status[i] > 0 THEN 1 ELSE 2]]

\* Graph.emptyState()
emptyState(g) ==
    [g EXCEPT !.status = [i \in DOMAIN g.status |-> 0],
              !.energized = [b \in DOMAIN g.energized |-> 0]]

\* the neighbours of node i, whatever their status
Potentials_AnyNeighbour(g, lastState, s, i) ==
    LET branches == NodeBranches(g, i)
    IN  [k \in 1..Len(branches) |-> OtherNode(g, branches[k], i)]

\* the neighbours of node i that had in lastState the status node i has in s
Potentials(g, lastState, s, i) ==
    LET branches == NodeBranches(g, i)
        others == [k \in 1..Len(branches) |-> OtherNode(g, branches[k], i)]
    IN  SelectSeq(others, LAMBDA other : At(lastState, other) = At(s, i))

\* diffs with the nodes whose status did not change as well
Diffs_Unchanged(g, lastState, s) ==
    LET all == [k \in 1..Len(s) |->
                  [i |-> k - 1, potentials |-> Potentials(g, lastState, s, k - 1)]]
    IN  SelectSeq(all, LAMBDA d : /\ At(s, d.i) # "D"
                                  /\ Len(d.potentials) > 0)

\* diffs: the nodes whose status changed, not to Damaged, and that have a
\* neighbour to take the new status from
Diffs(g, lastState, s) ==
    LET all == [k \in 1..Len(s) |->
                  [i |-> k - 1, potentials |-> Potentials(g, lastState, s, k - 1)]]
    IN  SelectSeq(all, LAMBDA d : /\ At(lastState, d.i) # At(s, d.i)
                                  /\ At(s, d.i) # "D"
                                  /\ Len(d.potentials) > 0)

\* the first entry of diffs taken, whatever the number of its potentials
MinDiff_First(diffs) == 1

\* the index of the first entry of diffs with the fewest potentials
MinDiff(diffs) ==
    CHOOSE m \in 1..Len(diffs) :
        /\ \A k \in 1..Len(diffs) :
              Len(diffs[k].potentials) >= Len(diffs[m].potentials)
        /\ \A k \in 1..m - 1 :
              Len(diffs[k].potentials) > Len(diffs[m].potentials)

\* diffs.splice(mindiff, 1)
Splice(arr, m) == SubSeq(arr, 1, m - 1) \o SubSeq(arr, m + 1, Len(arr))

\* The body of the loop that empties diffs, for the entry taken: the first
\* branch of the target that joins it to the source is directed from the
\* source to the target and energized.
EnergizeBranch(g, source, target, last) ==
    LET joining == SelectSeq(NodeBranches(g, target),
                             LAMBDA b : At(g.nodes, b) \in {<<target, source>>,
                                                           <<source, target>>})
    IN  IF joining = <<>> THEN [g |-> g, last |-> last]
        ELSE LET b == joining[1]
             IN  [g |-> [g EXCEPT !.nodes[b + 1] = <<source, target>>,
                                  !.energized[b + 1] = 1],
                  last |-> Append(last, [branch |-> b, source |-> source,
                                         target |-> target])]

\* while (diffs.length > 0) { ... }
RECURSIVE ResolveDiffs(_, _, _)
ResolveDiffs(g, diffs, last) ==
    IF diffs = <<>> THEN [g |-> g, last |-> last]
    ELSE LET m == MinDiff(diffs)
             r == EnergizeBranch(g, diffs[m].potentials[1], diffs[m].i, last)
         IN  ResolveDiffs(r.g, Splice(diffs, m), r.last)

\* the branches of the earlier transitions marked as well
MarkLast_All(g, last) ==
    [g EXCEPT !.energized =
        [b \in DOMAIN g.energized |-> IF g.energized[b] > 0 THEN 2 ELSE 0]]

\* for (let b of lastEnergizedBranches) b.energized = 2
MarkLast(g, last) ==
    [g EXCEPT !.energized =
        [b \in DOMAIN g.energized |->
            IF \E k \in DOMAIN last : last[k].branch = b - 1 THEN 2
            ELSE g.energized[b]]]

\* Graph.setState(hist), up to the loop over hist
setStateBegin(g) ==
    [emptyState(g) EXCEPT !.hist = <<>>, !.assigned = <<>>]

\* for(let s of hist) { ... }: the body of the loop, for the snapshot s
setStateIteration(g, s) ==
    LET g1 == _setState(g, s)
    IN  IF g1.thrown # NoError THEN g1
        ELSE IF g1.hist = <<>> THEN [g1 EXCEPT !.hist = <<s>>]
        ELSE LET lastState == g1.hist[Len(g1.hist)]
                 r == ResolveDiffs(g1, Diffs(g1, lastState, s), <<>>)
             IN  [r.g EXCEPT !.hist = Append(@, s),
                             !.assigned = Append(@, r.last)]

\* Graph.setState(hist), after the loop over hist.  lastEnergizedBranches
\* is assigned in the transition from one snapshot to the next only:
\* iterating over it throws when hist has fewer than two snapshots.
setStateEnd(g) ==
    IF g.assigned = <<>> THEN Throw(g, TypeError)
    ELSE MarkLast(g, g.assigned[Len(g.assigned)])

RECURSIVE setStateLoop(_, _, _)
setStateLoop(g, hist, k) ==
    IF k > Len(hist) \/ g.thrown # NoError THEN g
    ELSE setStateLoop(setStateIteration(g, hist[k]), hist, k + 1)

\* Graph.setState(hist)
Graph_setState(g, hist) ==
    LET looped == setStateLoop(setStateBegin(g), hist, 1)
    IN  IF looped.thrown # NoError THEN looped ELSE setStateEnd(looped)

\* the snapshots of the nodes
Snapshots == [1..NumNodes -> Statuses]

\* a snapshot that lacks the status of the last node
ShortSnapshots == [1..NumNodes - 1 -> {"U"}]

RECURSIVE SnapshotLists(_)
SnapshotLists(n) ==
    IF n = 0 THEN {<<>>}
    ELSE LET shorter == SnapshotLists(n - 1)
         IN  shorter \cup
             { Append(h, s) : h \in { l \in shorter : Len(l) = n - 1 },
                              s \in Snapshots \cup ShortSnapshots }

\* the snapshot lists setState is called with
Histories == SnapshotLists(MaxSnapshots)

(***************************************************************************)
(* The state machine: a cursor of either kind is constructed from a policy *)
(* of the server and its methods are then called in any order.  The        *)
(* constructor of LinearPolicy runs the loop of getStepsFromPolicy one     *)
(* iteration at a time.                                                    *)
(***************************************************************************)
\* Object.keys(this.policy.actions), the keys the action select box offers
ActionKeys(actions) == 0..Len(actions) - 1

\* the indexes of the outcome list the transition list shows
OutcomeIndexes(action) == 0..Len(action) - 1

Called(c) == [c EXCEPT !.thrown = NoError]

\* no second cursor has been made
NoTwin == [exists |-> FALSE, shared |-> FALSE, c |-> <<>>]

\* this.previousStates = [] or this.fullHistory.slice(...) in goTo: the
\* first cursor has a new array for its previous states, and no longer the
\* array a cursor made by convertToInteractive has taken from it
Unshared(t) == [t EXCEPT !.shared = FALSE]

\* the side panel before a view is constructed: no control is rendered
NoView == [rendered |-> FALSE, prev |-> FALSE, next |-> FALSE,
           keys |-> {}, outcomes |-> {}]

\* the policy screen of a session in which no policy is requested
NoPanel == [screen |-> "view", issued |-> 0, pending |-> {}, answered |-> {},
            loaded |-> 0, viewOf |-> 0,
            policy |-> [states |-> <<>>, transitions |-> <<>>, policy |-> <<>>]]

\* the failure probabilities of the nodes, in percent, as the graph file
\* gives them
InitialPf == [i \in 1..NumNodes |-> 30]

\* no node has been updated: no node has the field originalPf
NoOriginalPf == [i \in 1..NumNodes |-> Undefined]

\* the graph outside update mode, no node having been updated
NoEdit == [mode |-> "navigate", node |-> Undefined, pf |-> InitialPf,
           originalPf |-> NoOriginalPf, atEntry |-> InitialPf]

\* no probability query has been called
NoQuery == [state |-> Undefined, nodeIndex |-> Undefined, depth |-> Undefined]

probVars == <<queue, results, query, returned>>

Constructed(policy, k) ==
    /\ kind = k
    /\ lastOp = "constructor"
    /\ current = 0
    /\ queue = <<>> /\ results = <<>>
    /\ query = NoQuery /\ returned = Returned(<<>>)
    /\ graph = Network
    /\ twin = NoTwin
    /\ view = NoView
    /\ panel = NoPanel
    /\ editor = NoEdit
    /\ IF k = "interactive"
       THEN cursor = InteractivePolicy(policy) /\ pc = "ready"
       ELSE cursor = getStepsBegin(InteractivePolicy(policy)) /\ pc = "constructor"

Init ==
    \E policy \in LoadedPolicies, k \in {"interactive", "linear"} :
        Constructed(policy, k)

InitUpdate ==
    \E policy \in RegeneratedPolicies, k \in {"interactive", "linear"} :
        Constructed(policy, k)

SetAction ==
    /\ pc = "ready" /\ kind = "interactive"
    /\ \E actionNum \in ActionKeys(cursor.actions) :
          cursor' = setAction(Called(cursor), actionNum, 0)
    /\ lastOp' = "setAction"
    /\ UNCHANGED <<kind, pc, current>>
    /\ UNCHANGED <<probVars, graph, twin, uiVars>>

SetNext ==
    /\ pc = "ready" /\ kind = "interactive"
    /\ \E i \in OutcomeIndexes(cursor.action) :
          cursor' = setNext(Called(cursor), i)
    /\ lastOp' = "setNext"
    /\ UNCHANGED <<kind, pc, current>>
    /\ UNCHANGED <<probVars, graph, twin, uiVars>>

NextState ==
    /\ pc = "ready" /\ kind = "interactive"
    /\ Len(cursor.previousStates) < MaxHist
    /\ cursor' = nextState(Called(cursor))
    /\ lastOp' = "nextState"
    /\ UNCHANGED <<kind, pc, current>>
    /\ UNCHANGED <<probVars, graph, twin, uiVars>>

PreviousState ==
    /\ pc = "ready" /\ kind = "interactive"
    /\ cursor' = previousState(Called(cursor))
    /\ lastOp' = "previousState"
    /\ UNCHANGED <<kind, pc, current>>
    /\ UNCHANGED <<probVars, graph, twin, uiVars>>

\* The first MaxSteps entries of a list that grows in the loop of
\* getStepsFromPolicy.  A walk that has pushed more states than the table has
\* has entered a state twice and never leaves the loop: no list that is cut
\* here is ever read.
Kept(list) == IF Len(list) > MaxSteps THEN SubSeq(list, 1, MaxSteps) ELSE list

\* One iteration of the loop of getStepsFromPolicy; when the loop is left,
\* the rest of getStepsFromPolicy and of updateSteps (goTo(0)) follows.
GetStepsStep ==
    /\ pc \in {"constructor", "updateSteps"}
    /\ LET r == getStepsIteration(cursor, current)
       IN  /\ current' = r.current
           /\ cursor' = IF r.exit = "done" THEN goTo(getStepsEnd(r.c, r.current), 0)
                         ELSE [r.c EXCEPT !.steps = Kept(@),
                                          !.fullHistory = Kept(@)]
           /\ pc' = IF r.exit = "loop" THEN pc
                     ELSE IF r.exit = "throw" /\ pc = "constructor" THEN "failed"
                     ELSE "ready"
           /\ twin' = IF r.exit = "done" THEN Unshared(twin) ELSE twin
    /\ UNCHANGED <<kind, lastOp>>
    /\ UNCHANGED <<probVars, graph, uiVars>>

GoTo ==
    /\ pc = "ready" /\ kind = "linear"
    /\ \E index \in 0..Len(cursor.steps) - 1 :
          cursor' = goTo(Called(cursor), index)
    /\ twin' = Unshared(twin)
    /\ lastOp' = "goTo"
    /\ UNCHANGED <<kind, pc, current>>
    /\ UNCHANGED <<probVars, graph, uiVars>>

ConvertToInteractive ==
    /\ pc = "ready" /\ kind = "linear"
    /\ cursor' = convertToInteractive(Called(cursor))
    /\ kind' = "interactive"
    /\ lastOp' = "convertToInteractive"
    /\ UNCHANGED <<pc, current>>
    /\ UNCHANGED <<probVars, graph, twin, uiVars>>

\* The policy is regenerated: InteractivePolicyView calls update(policy),
\* LinearPolicyView calls update(policy, null).
Update ==
    /\ pc = "ready"
    /\ \E policy \in RegeneratedPolicies :
          cursor' = update(Called(cursor), policy,
                           IF kind = "linear" THEN Null ELSE Undefined)
    /\ lastOp' = "update"
    /\ UNCHANGED <<kind, pc, current>>
    /\ UNCHANGED <<probVars, graph, twin, uiVars>>

\* updateSteps() of a linear cursor, up to the loop of getStepsFromPolicy
UpdateSteps ==
    /\ pc = "ready" /\ kind = "linear"
    /\ cursor' = getStepsBegin(Called(cursor))
    /\ current' = 0
    /\ pc' = "updateSteps"
    /\ lastOp' = "updateSteps"
    /\ UNCHANGED kind
    /\ UNCHANGED <<probVars, graph, twin, uiVars>>

\* _energizationProbabilities(state0, nodeIndex), up to its loop
EnergizationProbabilities ==
    /\ pc = "ready"
    /\ \E state0 \in StateIndexes(cursor), nodeIndex \in NodeIndexes(cursor) :
          /\ query' = [state |-> state0, nodeIndex |-> nodeIndex, depth |-> Undefined]
          /\ queue' = <<[state |-> state0, p |-> One, depth |-> 0]>>
    /\ results' = <<0>>
    /\ returned' = Returned(<<>>)
    /\ pc' = "energizationProbabilities"
    /\ lastOp' = "energizationProbabilities"
    /\ UNCHANGED <<cursor, kind, current, graph, twin, uiVars>>

\* One iteration of the loop of _energizationProbabilities; when the loop is
\* left, `results` is returned.
EnergizationProbabilitiesStep ==
    /\ pc = "energizationProbabilities"
    /\ LET r == energizationProbabilitiesIteration(cursor, queue, results,
                                                  query.nodeIndex)
       IN  /\ r.exit = "loop" => Head(queue).depth <= MaxDepth
           /\ queue' = r.queue
           /\ results' = r.results
           /\ returned' = IF r.exit = "done" THEN Returned(r.results)
                           ELSE IF r.exit = "throw" THEN Raised(TypeError)
                           ELSE returned
           /\ pc' = IF r.exit = "loop" THEN pc ELSE "ready"
    /\ UNCHANGED <<cursor, kind, current, lastOp, query, graph, twin, uiVars>>

\* _energizationProbability(state, nodeIndex, depth)
EnergizationProbability ==
    /\ pc = "ready"
    /\ \E state \in StateIndexes(cursor), nodeIndex \in NodeIndexes(cursor),
          depth \in 0..MaxDepth :
          LET value == energizationProbability(cursor, state, nodeIndex, depth)
          IN  /\ query' = [state |-> state, nodeIndex |-> nodeIndex, depth |-> depth]
              /\ returned' = IF value = Threw THEN Raised(TypeError)
                              ELSE Returned(value)
    /\ queue' = <<>> /\ results' = <<>>
    /\ lastOp' = "energizationProbability"
    /\ UNCHANGED <<cursor, kind, pc, current, graph, twin, uiVars>>

\* _allEnergizationProb(state)
AllEnergizationProb ==
    /\ pc = "ready"
    /\ \E state \in StateIndexes(cursor) :
          /\ query' = [state |-> state, nodeIndex |-> Undefined, depth |-> Undefined]
          /\ returned' = allEnergizationProb(cursor, state, 0)
    /\ queue' = <<>> /\ results' = <<>>
    /\ lastOp' = "allEnergizationProb"
    /\ UNCHANGED <<cursor, kind, pc, current, graph, twin, uiVars>>

\* cumulativePfs() with the cursor on `state`
CumulativePfs ==
    /\ pc = "ready"
    /\ \E state \in StateIndexes(cursor) :
          /\ query' = [state |-> state, nodeIndex |-> Undefined, depth |-> Undefined]
          /\ returned' = cumulativePfs(cursor, state)
    /\ queue' = <<>> /\ results' = <<>>
    /\ lastOp' = "cumulativePfs"
    /\ UNCHANGED <<cursor, kind, pc, current, graph, twin, uiVars>>

Next ==
    \/ SetAction \/ SetNext \/ NextState \/ PreviousState
    \/ GetStepsStep \/ GoTo \/ ConvertToInteractive

Spec == Init /\ [][Next]_vars

NextUpdate == Next \/ Update \/ UpdateSteps

SpecUpdate == InitUpdate /\ [][NextUpdate]_vars

(***************************************************************************)
(* The probability queries on a loaded policy.  A query reads the action   *)
(* the policy recommends in each state and no other: the policies have one *)
(* action, the recommended one, in the states that have any.               *)
(***************************************************************************)
EnginePolicy(f) ==
    [states |-> StateTable(Len(f)),
     transitions |-> [i \in 1..Len(f) |-> IF f[i] = <<>> THEN <<>> ELSE <<f[i]>>],
     policy |-> [i \in 1..Len(f) |-> IF f[i] = <<>> THEN Undefined ELSE 0]]

EnginePolicies ==
    { EnginePolicy(f) :
        f \in { g \in [1..NumEngineStates ->
                         {<<>>} \cup OutcomeLists(NumEngineStates)] :
                  TableSize(g) <= MaxSize } }

InitEngine == \E policy \in EnginePolicies : Constructed(policy, "interactive")

NextEngine ==
    \/ EnergizationProbabilities \/ EnergizationProbabilitiesStep
    \/ EnergizationProbability \/ AllEnergizationProb \/ CumulativePfs

SpecEngine == InitEngine /\ [][NextEngine]_vars

(***************************************************************************)
(* Properties of the cursors                                               *)
(***************************************************************************)
Interactive == pc = "ready" /\ kind = "interactive"

Triple(c) == <<c.state, c.actionNum, c.next>>

\* the states of the history entries, oldest first
HistoryStates(c) ==
    [i \in 1..Len(c.previousStates) |-> c.previousStates[i].state]

\* C1: for an InteractivePolicy cursor that is not at end, whatever action
\* and outcome are selected, nextState() followed by previousState() restores
\* the triple (state, actionNum, next) and the history.
C1_AdvanceRewindRoundTrip ==
    (Interactive /\ ~cursor.end) =>
        LET advanced == nextState(Called(cursor))
            rewound == previousState(Called(advanced))
        IN  /\ Triple(rewound) = Triple(cursor)
            /\ rewound.previousStates = cursor.previousStates
            /\ rewound.thrown = NoError

\* a cursor not at end on which a rewind has acted, with the second outcome of
\* an action other than the recommended one selected, and whose advance moves
\* to another state
C1_Witness ==
    /\ Interactive /\ ~cursor.end
    /\ lastOp = "previousState" /\ cursor.thrown = NoError
    /\ cursor.next = 1
    /\ cursor.actionNum # PolicyAt(cursor, cursor.state)
    /\ nextState(Called(cursor)).state # cursor.state
    /\ Len(nextState(Called(cursor)).previousStates) = Len(cursor.previousStates) + 1

\* C2: previousState() on a cursor with an empty history throws the error
\* "There's no previous state" and leaves the state, the selected action, the
\* outcome index, the end flag and the empty history as they were.
C2_RewindEmptyHistory ==
    (Interactive /\ cursor.previousStates = <<>>) =>
        LET rewound == previousState(Called(cursor))
        IN  /\ rewound.thrown = NoPreviousState
            /\ rewound.state = cursor.state
            /\ rewound.actionNum = cursor.actionNum
            /\ rewound.action = cursor.action
            /\ rewound.next = cursor.next
            /\ rewound.end = cursor.end
            /\ rewound.previousStates = <<>>

\* previousState() was called on an empty history and threw
C2_Witness ==
    /\ lastOp = "previousState" /\ cursor.thrown = NoPreviousState
    /\ cursor.previousStates = <<>> /\ cursor.state = 0

C4_StateIsValidIndex ==
    pc = "ready" => HasIndex(cursor.states, cursor.state)

RecommendedAction(c, s) ==
    IF s \in 0..Len(c.transitions) - 1 /\ c.policy[s + 1] \in 0..Len(c.transitions[s + 1]) - 1
    THEN c.transitions[s + 1][c.policy[s + 1] + 1]
    ELSE <<>>

\* state s has no recommended action
NoRecommendedAction(c, s) == RecommendedAction(c, s) = <<>>

\* state s is terminal: no recommended action, or one whose only outcome
\* returns to s
Terminal(c, s) ==
    \/ NoRecommendedAction(c, s)
    \/ /\ Len(RecommendedAction(c, s)) = 1
       /\ RecommendedAction(c, s)[1][1] = s

\* C6: a state without recommended action is terminal and no error: the
\* construction of a cursor of either kind does not throw, and a cursor
\* constructed on, advanced to, or sent by goTo to such a state has returned
\* without error and is at end there.
C6_NoActionIsTerminal ==
    /\ pc # "failed"
    /\ (pc = "ready" /\ lastOp = "constructor"
          /\ NoRecommendedAction(cursor, cursor.state)) =>
           (cursor.end /\ cursor.thrown = NoError)
    /\ (Interactive /\ ~cursor.end) =>
           LET advanced == nextState(Called(cursor))
           IN  NoRecommendedAction(advanced, advanced.state) =>
                  (advanced.end /\ advanced.thrown = NoError)
    /\ (pc = "ready" /\ kind = "linear") =>
           \A index \in 0..Len(cursor.steps) - 1 :
               LET gone == goTo(Called(cursor), index)
               IN  NoRecommendedAction(gone, gone.state) =>
                      (gone.end /\ gone.thrown = NoError)

SnapshotsUpToCurrent(c) ==
    [i \in 1..Len(c.previousStates) + 1 |->
        IF i <= Len(c.previousStates)
        THEN c.states[c.previousStates[i].state + 1]
        ELSE c.states[c.state + 1]]

\* C8: setAction reports to the graph the snapshots of the history and of the
\* current state, followed by the current state again when the cursor is at
\* end, by nothing when the outcome index is null and the cursor is not at
\* end, and else by the target state of the selected outcome, as setNext does.
C8_ReportedSnapshots ==
    (pc = "ready" /\ cursor.state \in 0..Len(cursor.states) - 1) =>
        LET c == Called(cursor)
        IN  /\ \A k \in ActionKeys(c.actions) \cup {Undefined} :
                 \A n \in {Null} \cup 0..Len(ActionAt(c.actions, k)) - 1 :
                    LET r == setAction(c, k, n)
                    IN  r.shown =
                          SnapshotsUpToCurrent(c) \o
                             (IF r.end THEN <<c.states[c.state + 1]>>
                              ELSE IF n = Null THEN <<>>
                              ELSE <<c.states[r.action[n + 1][1] + 1]>>)
            /\ \A i \in OutcomeIndexes(c.action) :
                 setNext(c, i).shown =
                    SnapshotsUpToCurrent(c) \o <<c.states[c.action[i + 1][1] + 1]>>

\* setAction has reported a history, the current state and the tentative next
\* state
C8_Witness ==
    /\ Interactive /\ lastOp = "setAction" /\ ~cursor.end
    /\ cursor.thrown = NoError
    /\ Len(cursor.previousStates) = 1
    /\ cursor.shown = << cursor.states[1], cursor.states[2], cursor.states[1] >>

\* C9: nextState() on a cursor not at end pushes one entry {state, actionNum,
\* next} and moves to the target of the selected outcome of the selected
\* action; the recommended action of the new state is selected, with outcome
\* 0 when the cursor is not at end there.
C9_AdvanceEffect ==
    (Interactive /\ ~cursor.end) =>
        LET c == Called(cursor)
            advanced == nextState(c)
            target == c.action[c.next + 1][1]
        IN  /\ advanced.previousStates =
                  c.previousStates \o
                     <<[state |-> c.state, actionNum |-> c.actionNum, next |-> c.next]>>
            /\ advanced.state = target
            /\ advanced.actionNum = c.policy[target + 1]
            /\ advanced.action = RecommendedAction(c, target)
            /\ ~advanced.end => advanced.next = 0
            /\ advanced.thrown = NoError

\* nextState() has moved from state 0, left by the second outcome of its
\* second action, to state 1, which is not terminal
C9_Witness ==
    /\ Interactive /\ lastOp = "nextState" /\ ~cursor.end
    /\ cursor.previousStates = <<[state |-> 0, actionNum |-> 1, next |-> 1]>>
    /\ cursor.state = 1 /\ cursor.next = 0

\* C10: setNext(i) on a cursor not at end changes the outcome index and the
\* reported snapshots only.
C10_SetNextFrame ==
    (Interactive /\ ~cursor.end) =>
        LET c == Called(cursor)
        IN  \A i \in OutcomeIndexes(c.action) :
               setNext(c, i) = [c EXCEPT !.next = i, !.shown = setNext(c, i).shown]

\* setNext has selected the second outcome
C10_Witness ==
    /\ Interactive /\ lastOp = "setNext" /\ ~cursor.end
    /\ cursor.next = 1 /\ cursor.thrown = NoError
    /\ Len(cursor.previousStates) = 1

Linear == pc = "ready" /\ kind = "linear"

\* the indexes goTo is called with: those of the step list
StepIndexes(c) == 0..Len(c.steps) - 1

C12_GoToIdempotent ==
    Linear =>
        \A index \in StepIndexes(cursor) :
            LET once == goTo(Called(cursor), index)
                twice == goTo(Called(once), index)
            IN  /\ twice.state = once.state
                /\ twice.previousStates = once.previousStates
                /\ twice.actionNum = once.actionNum
                /\ twice.action = once.action
                /\ twice.next = once.next
                /\ twice.end = once.end

\* goTo(2) has acted, leaving one previous state and the first of two
\* outcomes selected, and a second goTo(2) leaves the cursor as it is
C12_Witness ==
    /\ Linear /\ lastOp = "goTo" /\ cursor.thrown = NoError
    /\ cursor.index = 2 /\ Len(cursor.previousStates) = 1
    /\ goTo(Called(cursor), 2) = cursor
    /\ Len(cursor.action) = 2 /\ cursor.next = 0

(***************************************************************************)
(* The construction of a LinearPolicy alone, its loop scheduled: a call    *)
(* that has begun goes on until it returns or throws.                      *)
(***************************************************************************)
InitLinear ==
    \E policy \in Policies(NumStates, MaxWalkSize) : Constructed(policy, "linear")

NextLinear == GetStepsStep \/ GoTo

SpecLinear == InitLinear /\ [][NextLinear]_vars /\ WF_vars(GetStepsStep)

\* C13: the loop of getStepsFromPolicy is left, for every policy: the
\* constructor of LinearPolicy returns or throws.
C13_PrecomputationTerminates == <>(pc # "constructor")

\* the target of outcome 0 of the recommended action of state s
FirstTarget(c, s) == Target(At(RecommendedAction(c, s), 0)) + ACTION_OFFSET

\* C14: steps starts with state 0; every next entry is the target of outcome
\* 0 of the recommended action of the entry before it; the walk stops at the
\* first state whose first outcome returns to itself; fullHistory holds the
\* triple (state, action key, 0) of each step taken, in order.
C14_StepsFollowFirstOutcome ==
    Linear =>
        LET steps == cursor.steps
            n == Len(steps)
        IN  /\ n >= 2 /\ steps[1] = 0
            /\ \A i \in 1..n - 1 : steps[i + 1] = FirstTarget(cursor, steps[i])
            /\ \A i \in 1..n - 2 : FirstTarget(cursor, steps[i]) # steps[i]
            /\ FirstTarget(cursor, steps[n]) = steps[n]
            /\ Len(cursor.fullHistory) >= n - 2
            /\ \A i \in 1..n - 2 :
                   cursor.fullHistory[i] =
                       [state |-> steps[i],
                        actionNum |-> cursor.policy[steps[i] + 1],
                        next |-> 0]

\* the precomputation has walked from state 0 to state 1 by the first of the
\* two outcomes of the second action of state 0, and has stopped there
C14_Witness ==
    /\ Linear /\ lastOp = "constructor"
    /\ cursor.policy[1] = 1
    /\ Len(RecommendedAction(cursor, 0)) = 2
    /\ RecommendedAction(cursor, 0)[2][1] = 0
    /\ cursor.steps = <<0, 1, 1>>
    /\ cursor.fullHistory[1] = [state |-> 0, actionNum |-> 1, next |-> 0]

(***************************************************************************)
(* Properties of the probability queries                                   *)
(***************************************************************************)
\* this.states[state][nodeIndex]
NodeStatus(c, state, nodeIndex) == At(At(c.states, state), nodeIndex)

Energized(status) == status # "D" /\ status # "U"

\* the state an outcome leads to, as the cursor reads it
OutcomeState(a) == Target(a) + ACTION_OFFSET

\* the recursion C15 states, an outcome that returns to the state itself
\* counting 0 (C16)
RECURSIVE ClaimedProbability(_, _, _, _)
ClaimedProbability(c, state, nodeIndex, depth) ==
    LET s == NodeStatus(c, state, nodeIndex)
        action == PolicyAction(c, state)
    IN  IF depth = 0 THEN (IF Energized(s) THEN One ELSE 0)
        ELSE IF s = "D" THEN 0
        ELSE IF Energized(s) THEN One
        ELSE IF action = UndefinedAction THEN 0
        ELSE SumTerms([j \in 1..Len(action) |->
                 IF OutcomeState(action[j]) = state THEN 0
                 ELSE Times(action[j][2],
                            ClaimedProbability(c, OutcomeState(action[j]),
                                               nodeIndex, depth - 1))])

\* C15: energizationProbability(s, n, d) is, at d = 0, 1 if n is energized in
\* s and else 0; at d > 0, 0 if n is Damaged in s, 1 if n is energized in s,
\* 0 if s has no policy action, and else the sum over the outcomes of the
\* policy action of s of the probability of the outcome times the value of the
\* query in the state the outcome leads to, with depth d - 1.
C15_DepthBoundedQuery ==
    (pc = "ready" /\ lastOp = "energizationProbability") =>
        /\ returned.thrown = NoError
        /\ returned.value =
               ClaimedProbability(cursor, query.state, query.nodeIndex, query.depth)

\* C16: an outcome that leads back to the state it leaves contributes 0 to
\* the depth-bounded query, and the loop of the profile pushes no item for
\* it: it pushes as many items as the action has outcomes that lead to
\* another state.
C16_SelfLoopNotFollowed ==
    /\ (/\ pc = "ready" /\ lastOp = "energizationProbability"
        /\ query.depth > 0
        /\ NodeStatus(cursor, query.state, query.nodeIndex) = "U") =>
           LET action == PolicyAction(cursor, query.state)
           IN  \A j \in 1..Len(action) :
                  OutcomeState(action[j]) = query.state =>
                     OutcomeTerm(cursor, query.state, action[j],
                                 query.nodeIndex, query.depth) = 0
    /\ (/\ pc = "energizationProbabilities" /\ queue # <<>>
        /\ HasIndex(cursor.states, Head(queue).state)
        /\ NodeStatus(cursor, Head(queue).state, query.nodeIndex) = "U") =>
           LET item == Head(queue)
               action == PolicyAction(cursor, item.state)
           IN  Len(Pushes(action, item)) =
                  Cardinality({j \in 1..Len(action) :
                                 OutcomeState(action[j]) # item.state})

NonDecreasing(profile) ==
    \A i \in 1..Len(profile) - 1 : profile[i] <= profile[i + 1]

\* C17: the profile energizationProbabilities returns is non-decreasing in
\* depth and its entry for depth 0 is 0 or 1; so is the list of results at
\* every point of the loop.
C17_ProfileNonDecreasing ==
    /\ (pc = "energizationProbabilities") =>
           (results[1] \in {0, One} /\ NonDecreasing(results))
    /\ (pc = "ready" /\ lastOp = "energizationProbabilities"
          /\ returned.thrown = NoError) =>
           /\ returned.value = results
           /\ returned.value[1] \in {0, One}
           /\ NonDecreasing(returned.value)

\* a profile of three depths has been returned that grows at each depth
C17_Witness ==
    /\ pc = "ready" /\ lastOp = "energizationProbabilities"
    /\ returned.thrown = NoError
    /\ Len(returned.value) = 3
    /\ returned.value[1] = 0
    /\ returned.value[1] < returned.value[2]
    /\ returned.value[2] < returned.value[3]

SingleOutcomePolicies ==
    { EnginePolicy(f) :
        f \in [1..NumEngineStates ->
                 {<<>>} \cup { <<<<t, Percent>>>> : t \in 0..NumEngineStates - 1 }] }

InitProfile ==
    \E policy \in SingleOutcomePolicies : Constructed(policy, "interactive")

NextProfile == EnergizationProbabilities \/ EnergizationProbabilitiesStep

SpecProfile ==
    InitProfile /\ [][NextProfile]_vars /\ WF_vars(EnergizationProbabilitiesStep)

\* the states the policy leads to from state s in one transition, the
\* self-loop of a terminal state left out
Followed(c, s) ==
    IF Terminal(c, s) THEN {}
    ELSE { OutcomeState(PolicyAction(c, s)[j]) : j \in 1..Len(PolicyAction(c, s)) }

\* the states the policy leads to from the states S in 1 to k transitions
RECURSIVE FollowedWithin(_, _, _)
FollowedWithin(c, S, k) ==
    IF k = 0 THEN {}
    ELSE LET T == UNION { Followed(c, s) : s \in S }
         IN  T \cup FollowedWithin(c, T, k - 1)

\* the only cycles among the transitions the policy follows are the
\* self-loops of terminal states
OnlyTerminalSelfLoops(c) ==
    \A s \in StateIndexes(c) : s \notin FollowedWithin(c, {s}, Len(c.states))

\* C19: on a policy whose only cycles are the self-loops of terminal states,
\* a call of energizationProbabilities returns, its queue empty, from every
\* reference state and for every node.
C19_ProfileTerminates ==
    (pc = "energizationProbabilities" /\ OnlyTerminalSelfLoops(cursor))
        ~> (/\ pc = "ready" /\ lastOp = "energizationProbabilities"
            /\ queue = <<>> /\ returned.thrown = NoError)

\* C20: for every reference state and every node energized in it,
\* allEnergizationProb returns 1 for the node and cumulativePfs returns 0.
C20_EnergizedIsCertain ==
    /\ (pc = "ready" /\ lastOp = "allEnergizationProb") =>
           \A n \in NodeIndexes(cursor) :
               Energized(NodeStatus(cursor, query.state, n)) =>
                   (returned.thrown = NoError /\ At(returned.value, n) = One)
    /\ (pc = "ready" /\ lastOp = "cumulativePfs") =>
           \A n \in NodeIndexes(cursor) :
               Energized(NodeStatus(cursor, query.state, n)) =>
                   (returned.thrown = NoError /\ At(returned.value, n) = 0)

\* the states other than s that the policy leads to from state s in one
\* transition
FollowedElsewhere(c, s) ==
    { OutcomeState(PolicyAction(c, s)[j]) : j \in 1..Len(PolicyAction(c, s)) }
        \ {s}

\* the states the policy leads to from the states S in 1 to k transitions
\* that leave the state they start from
RECURSIVE FollowedElsewhereWithin(_, _, _)
FollowedElsewhereWithin(c, S, k) ==
    IF k = 0 THEN {}
    ELSE LET T == UNION { FollowedElsewhere(c, s) : s \in S }
         IN  T \cup FollowedElsewhereWithin(c, T, k - 1)

\* the only cycles among the transitions the policy follows are self-loops
OnlySelfLoops(c) ==
    \A s \in StateIndexes(c) :
        s \notin FollowedElsewhereWithin(c, {s}, Len(c.states))

\* C21: on a policy whose only cycles are self-loops, also those of actions
\* with several outcomes, allEnergizationProb returns from every reference
\* state: an outcome that returns to its source is not recursed into.
C21_SweepSkipsSelfLoops ==
    (pc = "ready" /\ lastOp = "allEnergizationProb" /\ OnlySelfLoops(cursor)) =>
        returned.thrown = NoError

(***************************************************************************)
(* The graph alone: setState is called with any list of at most            *)
(* MaxSnapshots snapshots, of which any may lack a node.  The loop over    *)
(* the list runs one snapshot at a time, and the list being any list, its  *)
(* next snapshot is chosen when the loop reads it.                         *)
(***************************************************************************)
cursorVars == <<cursor, kind, current, lastOp, twin>>

\* graph.setState(hist), up to the loop
SetStateBegin ==
    /\ pc = "ready"
    /\ graph' = setStateBegin(Called(graph))
    /\ pc' = "setState"
    /\ UNCHANGED <<cursorVars, probVars, uiVars>>

\* one iteration of the loop over hist
SetStateIteration ==
    /\ pc = "setState"
    /\ Len(graph.hist) < MaxSnapshots
    /\ \E s \in Snapshots \cup ShortSnapshots :
          graph' = setStateIteration(graph, s)
    /\ pc' = IF graph'.thrown # NoError THEN "ready" ELSE "setState"
    /\ UNCHANGED <<cursorVars, probVars, uiVars>>

\* hist has no further snapshot: the rest of setState
SetStateEnd ==
    /\ pc = "setState"
    /\ graph' = setStateEnd(graph)
    /\ pc' = "ready"
    /\ UNCHANGED <<cursorVars, probVars, uiVars>>

InitGraph ==
    \E policy \in Policies(NumStates, 0) : Constructed(policy, "interactive")

NextGraph == SetStateBegin \/ SetStateIteration \/ SetStateEnd

SpecGraph == InitGraph /\ [][NextGraph]_vars

(***************************************************************************)
(* Properties of the direction inference of the graph                      *)
(***************************************************************************)
\* the graph is between two calls
GraphReady == pc = "ready"

\* setState has returned or thrown
SetStateDone == pc = "ready" /\ (graph.hist # <<>> \/ graph.thrown # NoError)

\* C22: setState called with a list that holds a snapshot of another length
\* than the number of nodes throws the length error and leaves the status of
\* every node and the energized flag and the direction of every branch as
\* they were before the call, wherever the snapshot is in the list.
C22_LengthErrorBeforeMutation ==
    GraphReady =>
        \A hist \in Histories :
            (\E k \in DOMAIN hist : hist[k] \in ShortSnapshots) =>
                LET called == Graph_setState(Called(graph), hist)
                IN  /\ called.thrown = LengthError
                    /\ called.status = graph.status
                    /\ called.energized = graph.energized
                    /\ called.nodes = graph.nodes

\* the snapshot in which the first n nodes of the path are energized and the
\* other nodes Unknown
EnergizedUpTo(n) ==
    [i \in 1..NumNodes |-> IF i <= n THEN EnergizedStatus ELSE "U"]

\* the snapshot list [[U,U,U], [E,U,U], [E,E,U]]
PathExample == <<EnergizedUpTo(0), EnergizedUpTo(1), EnergizedUpTo(2)>>

\* the branch that joins the nodes a and b, as an index of graph.nodes
BranchOf(a, b) ==
    CHOOSE k \in DOMAIN graph.nodes : graph.nodes[k] \in {<<a, b>>, <<b, a>>}

\* the branch that joins a and b is energized and directed from a to b
EnergizedFromTo(a, b) ==
    /\ graph.energized[BranchOf(a, b)] > 0
    /\ graph.nodes[BranchOf(a, b)] = <<a, b>>

\* C23 as claimed: on the path 0 - 1 - 2 with the snapshots [U,U,U],
\* [E,U,U], [E,E,U], the branch of 0 and 1 is energized from 0 to 1 once the
\* second snapshot is read, the branch of 1 and 2 from 1 to 2 once the third
\* is read, and no branch is energized toward node 2 before that.
C23_PathExampleAsClaimed ==
    /\ (graph.hist = SubSeq(PathExample, 1, 2)) => EnergizedFromTo(0, 1)
    /\ (graph.hist = PathExample) => EnergizedFromTo(1, 2)
    /\ (graph.hist = SubSeq(PathExample, 1, 2)) => ~EnergizedFromTo(1, 2)

\* C23 as amended: no branch is energized once the second snapshot is read;
\* the branch of 0 and 1 is energized from 0 to 1 once the third is read,
\* when node 1 takes the status of node 0, and carries the flag 2 when
\* setState returns; the branch of 1 and 2 is never energized, node 2
\* staying Unknown.
C23_PathExample ==
    /\ (graph.hist \in {SubSeq(PathExample, 1, 1), SubSeq(PathExample, 1, 2)}) =>
           \A k \in DOMAIN graph.energized : graph.energized[k] = 0
    /\ (graph.hist = PathExample) =>
           /\ EnergizedFromTo(0, 1)
           /\ graph.energized[BranchOf(1, 2)] = 0
           /\ graph.assigned =
                  <<<<>>, <<[branch |-> BranchOf(0, 1) - 1,
                             source |-> 0, target |-> 1]>>>>
           /\ GraphReady =>
                  (graph.thrown = NoError /\ graph.energized[BranchOf(0, 1)] = 2)

\* setState has returned for the three snapshots, the branch of 0 and 1
\* carrying the flag of the last transition
C23_Witness ==
    /\ GraphReady /\ graph.hist = PathExample /\ graph.thrown = NoError
    /\ graph.energized[BranchOf(0, 1)] = 2
    /\ graph.status[1] = 1 /\ graph.status[2] = 2 /\ graph.status[3] = 0

\* the transitions between two snapshots that the loop of setState has gone
\* through, and the assignments of a branch made in one of them
Transitions == DOMAIN graph.assigned

Assignments(k) ==
    { graph.assigned[k][n] : n \in DOMAIN graph.assigned[k] }

\* the status of node i before and after transition k
StatusBefore(k, i) == At(graph.hist[k], i)

StatusAfter(k, i) == At(graph.hist[k + 1], i)

\* C24: a branch is energized and directed from a source to a target in a
\* transition only if the status of the target changed in the transition,
\* to the status the source had before it, and that status is neither
\* Damaged nor Unknown.
C24_AssignedOnEnergizationOnly ==
    \A k \in Transitions : \A e \in Assignments(k) :
        /\ StatusAfter(k, e.target) # StatusBefore(k, e.target)
        /\ StatusAfter(k, e.target) = StatusBefore(k, e.source)
        /\ StatusAfter(k, e.target) \notin {"D", "U"}

\* the branches assigned in transition k, as indexes of graph.energized
AssignedBranches(k) == { e.branch + 1 : e \in Assignments(k) }

\* C25: when setState has returned for at least two snapshots, the branches
\* assigned in the last transition carry the flag 2, the branches assigned
\* in an earlier transition only the flag 1, and every other branch 0.
C25_LastTransitionFlag ==
    (GraphReady /\ graph.thrown = NoError /\ Len(graph.hist) >= 2) =>
        \A b \in DOMAIN graph.energized :
            graph.energized[b] =
                IF b \in AssignedBranches(Len(graph.assigned)) THEN 2
                ELSE IF \E k \in Transitions : b \in AssignedBranches(k) THEN 1
                ELSE 0

\* setState has returned for three snapshots: one branch was assigned in the
\* first transition only, another in the last, each toward a node that was
\* energized
C25_Witness ==
    /\ GraphReady /\ graph.thrown = NoError /\ Len(graph.hist) = 3
    /\ AssignedBranches(1) # {} /\ AssignedBranches(2) # {}
    /\ AssignedBranches(1) \cap AssignedBranches(2) = {}
    /\ \A k \in Transitions : \A e \in Assignments(k) :
          StatusAfter(k, e.target) = EnergizedStatus
    /\ \E a, b \in DOMAIN graph.energized :
          graph.energized[a] = 1 /\ graph.energized[b] = 2

NodeIndexesOfGraph == 0..Len(graph.status) - 1

\* the nodes a branch joins to node i
Neighbours(i) ==
    { OtherNode(graph, NodeBranches(graph, i)[n], i) :
        n \in DOMAIN NodeBranches(graph, i) }

\* node i changes from lastState to s, and no neighbour of it has in
\* lastState the status it has in s
ChangedWithoutSource(lastState, s, i) ==
    /\ At(s, i) # At(lastState, i)
    /\ \A j \in Neighbours(i) : At(lastState, j) # At(s, i)

\* C26: a transition in which the status of a node changes while no
\* neighbour had its new status before throws nothing and assigns no branch
\* toward the node.
C26_NoSourceTolerated ==
    (pc = "setState" /\ graph.hist # <<>> /\ Len(graph.hist) < MaxSnapshots) =>
        \A s \in Snapshots :
            LET lastState == graph.hist[Len(graph.hist)]
                read == setStateIteration(graph, s)
            IN  \A i \in NodeIndexesOfGraph :
                    ChangedWithoutSource(lastState, s, i) =>
                        /\ read.thrown = NoError
                        /\ \A e \in { read.assigned[Len(read.assigned)][n] :
                                        n \in DOMAIN read.assigned[Len(read.assigned)] } :
                               e.target # i

\* setState has returned for a list in whose last transition node 0 was
\* energized beside a node still Unknown, while another branch was assigned
C26_Witness ==
    /\ GraphReady /\ graph.thrown = NoError /\ Len(graph.hist) >= 2
    /\ LET k == Len(graph.assigned)
       IN  /\ ChangedWithoutSource(graph.hist[k], graph.hist[k + 1], 0)
           /\ StatusAfter(k, 0) = EnergizedStatus
           /\ Assignments(k) # {}
           /\ \A e \in Assignments(k) : e.target # 0

\* the neighbours of node i that had before transition k the status node i
\* has after it: the nodes node i may have its status from
Candidates(k, i) ==
    { j \in Neighbours(i) : StatusBefore(k, j) = StatusAfter(k, i) }

\* the status of node i changed in transition k, and not to Damaged
Changed(k, i) ==
    StatusAfter(k, i) # StatusBefore(k, i) /\ StatusAfter(k, i) # "D"

\* the number of nodes node j may have its own status from in transition k
OwnCandidates(k, j) ==
    IF Changed(k, j) THEN Cardinality(Candidates(k, j)) ELSE 0

\* the branches that join node i to one of the nodes of S, as indexes of
\* graph.nodes counted from 0
BranchesTo(i, S) ==
    { b \in 0..Len(graph.nodes) - 1 :
        \E j \in S : At(graph.nodes, b) \in {<<i, j>>, <<j, i>>} }

Least(S) == CHOOSE x \in S : \A y \in S : x <= y

\* the nodes with fewer candidates are resolved first in every transition
FewestCandidatesFirst ==
    \A k \in Transitions :
        \A m, n \in DOMAIN graph.assigned[k] :
            m < n =>
                Cardinality(Candidates(k, graph.assigned[k][m].target))
                    <= Cardinality(Candidates(k, graph.assigned[k][n].target))

SourceNodes ==
    { graph.externalBranches[n] : n \in DOMAIN graph.externalBranches }

\* C28: when setState has returned, the node every energized branch is
\* directed from is attached to an external branch or is the node another
\* energized branch is directed to.
C28_DirectedAwayFromSources ==
    (GraphReady /\ graph.thrown = NoError) =>
        \A b \in DOMAIN graph.nodes :
            graph.energized[b] > 0 =>
                \/ graph.nodes[b][1] \in SourceNodes
                \/ \E c \in DOMAIN graph.nodes :
                      graph.energized[c] > 0 /\ graph.nodes[c][2] = graph.nodes[b][1]

(***************************************************************************)
(* Properties of the policy model a cursor is given.  The constructor and  *)
(* update copy the references of the model to the cursor: the fields       *)
(* states, transitions and policy of the cursor are the arrays of the      *)
(* model, and a method that writes to one of them writes to the model.     *)
(***************************************************************************)
\* the cursor d holds the states, the transitions and the policy that the
\* cursor or policy model c holds
SameModel(c, d) ==
    /\ d.states = c.states
    /\ d.transitions = c.transitions
    /\ d.policy = c.policy

\* C29: the construction of a cursor, setState, setAction, setNext,
\* nextState, previousState, goTo, convertToInteractive and update leave the
\* states, the transitions and the policy of the model they work on as they
\* are; update leaves those of the model it is given as they are.
C29_ModelUnchanged ==
    /\ (pc \in {"constructor", "updateSteps"}) =>
           LET r == getStepsIteration(cursor, current)
           IN  SameModel(cursor, IF r.exit = "done"
                                 THEN goTo(getStepsEnd(r.c, r.current), 0)
                                 ELSE r.c)
    /\ (pc = "ready") =>
           LET c == Called(cursor)
           IN  /\ \A k \in ActionKeys(c.actions) : SameModel(c, setAction(c, k, 0))
               /\ \A i \in OutcomeIndexes(c.action) : SameModel(c, setNext(c, i))
               /\ \A st \in StateIndexes(c) :
                     /\ SameModel(c, setState(c, st, Undefined))
                     /\ \A k \in ActionKeys(TransitionsAt(c, st)) :
                           SameModel(c, setStateAndAction(c, st, k, Undefined))
               /\ SameModel(c, nextState(c))
               /\ SameModel(c, previousState(c))
               /\ \A index \in StepIndexes(c) : SameModel(c, goTo(c, index))
               /\ SameModel(c, convertToInteractive(c))
               /\ \A policy \in RegeneratedPolicies :
                     /\ SameModel(policy, update(c, policy, Undefined))
                     /\ SameModel(policy, update(c, policy, Null))
                     /\ SameModel(policy, InteractivePolicy(policy))

\* setAction has selected an action of a state for which the policy
\* recommends none, and the policy still recommends none
C29_Witness ==
    /\ pc = "ready" /\ lastOp = "setAction" /\ cursor.thrown = NoError
    /\ cursor.actionNum = 0
    /\ PolicyAt(cursor, cursor.state) = Undefined

(***************************************************************************)
(* Two cursors over one policy model.  The second is constructed from the  *)
(* model of the first, or by convertToInteractive from a linear cursor:    *)
(* the constructor then copies every field of the linear cursor, the       *)
(* reference of its array previousStates among them, and nextState and     *)
(* previousState of the second cursor push to and pop from the array of    *)
(* both until goTo gives the linear cursor a new one.                      *)
(***************************************************************************)
\* the policy model the cursor c was given
ModelOf(c) ==
    [states |-> c.states, transitions |-> c.transitions, policy |-> c.policy]

\* the first cursor after a method of the second has left the second as t
AfterTwin(t) ==
    IF twin.shared THEN [cursor EXCEPT !.previousStates = t.previousStates]
    ELSE cursor

\* new InteractivePolicy(graph, policy) over the model of the first cursor
SecondCursor ==
    /\ pc = "ready" /\ ~twin.exists
    /\ twin' = [exists |-> TRUE, shared |-> FALSE,
                c |-> InteractivePolicy(ModelOf(cursor))]
    /\ UNCHANGED <<cursor, kind, pc, current, lastOp, probVars, graph, uiVars>>

\* convertToInteractive() of the linear cursor, which stays as it is
Convert ==
    /\ pc = "ready" /\ kind = "linear" /\ ~twin.exists
    /\ twin' = [exists |-> TRUE, shared |-> TRUE,
                c |-> convertToInteractive(Called(cursor))]
    /\ UNCHANGED <<cursor, kind, pc, current, lastOp, probVars, graph, uiVars>>

TwinSetAction ==
    /\ pc = "ready" /\ twin.exists
    /\ \E actionNum \in ActionKeys(twin.c.actions) :
          twin' = [twin EXCEPT !.c = setAction(Called(twin.c), actionNum, 0)]
    /\ UNCHANGED <<cursor, kind, pc, current, lastOp, probVars, graph, uiVars>>

TwinSetNext ==
    /\ pc = "ready" /\ twin.exists
    /\ \E i \in OutcomeIndexes(twin.c.action) :
          twin' = [twin EXCEPT !.c = setNext(Called(twin.c), i)]
    /\ UNCHANGED <<cursor, kind, pc, current, lastOp, probVars, graph, uiVars>>

TwinNextState ==
    /\ pc = "ready" /\ twin.exists
    /\ Len(twin.c.previousStates) < MaxHist
    /\ twin' = [twin EXCEPT !.c = nextState(Called(twin.c))]
    /\ cursor' = AfterTwin(twin'.c)
    /\ UNCHANGED <<kind, pc, current, lastOp, probVars, graph, uiVars>>

TwinPreviousState ==
    /\ pc = "ready" /\ twin.exists
    /\ twin' = [twin EXCEPT !.c = previousState(Called(twin.c))]
    /\ cursor' = AfterTwin(twin'.c)
    /\ UNCHANGED <<kind, pc, current, lastOp, probVars, graph, uiVars>>

InitPair ==
    \E policy \in Policies(NumStates, MaxWalkSize), k \in {"interactive", "linear"} :
        Constructed(policy, k)

NextPair ==
    \/ SetAction \/ SetNext \/ NextState \/ PreviousState
    \/ GetStepsStep \/ GoTo
    \/ SecondCursor \/ Convert
    \/ TwinSetAction \/ TwinSetNext \/ TwinNextState \/ TwinPreviousState

SpecPair == InitPair /\ [][NextPair]_vars

\* the fields a cursor owns: the current state, the history, the end flag
\* and the outcome selected
Owned(c) == <<c.state, c.previousStates, c.end, c.next>>

\* C30: no step changes the current state, the history, the end flag or the
\* selected outcome of both cursors: a method of one cursor leaves those of
\* the other as they are, also when the second cursor was made by
\* convertToInteractive.
C30_CursorsOwnTheirFields ==
    [][(twin.exists /\ twin'.exists) =>
          (Owned(twin'.c) = Owned(twin.c) \/ Owned(cursor') = Owned(cursor))]_vars

(***************************************************************************)
(* The side panel of the interactive cursor (InteractivePolicyView).       *)
(* policyNavigator renders the controls again and attaches the click       *)
(* handlers of the controls that are usable in the state of the cursor it  *)
(* reads; a handler that calls a method of the cursor renders the panel    *)
(* again when the method returns, except the handler of the transition     *)
(* list.  A method that throws leaves the controls as they were.           *)
(***************************************************************************)
\* policyNavigator with the click handler of Next Step attached whatever
\* the state of the cursor
policyNavigator_NextAlways(c) ==
    [rendered |-> TRUE,
     prev |-> Len(c.previousStates) > 0,
     next |-> TRUE,
     keys |-> IF nextStateAvailable(c) THEN ActionKeys(c.actions) ELSE {},
     outcomes |-> IF nextStateAvailable(c) THEN OutcomeIndexes(c.action)
                  ELSE {}]

\* the handlers attached by policyNavigator: prev when the history is not
\* empty; next, the keys of the action select box and the indexes of the
\* transition list when nextStateAvailable()
policyNavigator(c) ==
    [rendered |-> TRUE,
     prev |-> Len(c.previousStates) > 0,
     next |-> nextStateAvailable(c),
     keys |-> IF nextStateAvailable(c) THEN ActionKeys(c.actions) ELSE {},
     outcomes |-> IF nextStateAvailable(c) THEN OutcomeIndexes(c.action)
                  ELSE {}]

\* a click handler `() => { <method>; this.policyNavigator(); }`: the
\* panel is rendered again unless the method threw
Refreshed(c, v) == IF c.thrown = NoError THEN policyNavigator(c) ELSE v

\* new InteractivePolicyView(graph, div, policy, options)
NewView ==
    /\ pc = "ready" /\ kind = "interactive"
    /\ ~view.rendered
    /\ view' = policyNavigator(cursor)
    /\ UNCHANGED <<cursor, kind, pc, current, lastOp, probVars, graph, twin,
                   panel, editor>>

\* a click on Previous Step
ClickPrevious ==
    /\ view.rendered /\ view.prev
    /\ cursor' = previousState(Called(cursor))
    /\ view' = Refreshed(cursor', view)
    /\ lastOp' = "previousState"
    /\ UNCHANGED <<kind, pc, current, probVars, graph, twin, panel, editor>>

\* a click on Next Step
ClickNext ==
    /\ view.rendered /\ view.next
    /\ Len(cursor.previousStates) < MaxHist
    /\ cursor' = nextState(Called(cursor))
    /\ view' = Refreshed(cursor', view)
    /\ lastOp' = "nextState"
    /\ UNCHANGED <<kind, pc, current, probVars, graph, twin, panel, editor>>

\* a click on an element of the action select box
ClickAction ==
    /\ view.rendered
    /\ \E actionNum \in view.keys :
          cursor' = setAction(Called(cursor), actionNum, 0)
    /\ view' = Refreshed(cursor', view)
    /\ lastOp' = "setAction"
    /\ UNCHANGED <<kind, pc, current, probVars, graph, twin, panel, editor>>

\* a click on an element of the transition list: InteractivePolicyView
\* .setNext, which does not render the panel again
ClickTransition ==
    /\ view.rendered
    /\ \E i \in view.outcomes :
          cursor' = setNext(Called(cursor), i)
    /\ lastOp' = "setNext"
    /\ UNCHANGED <<kind, pc, current, probVars, graph, twin, uiVars>>

InitView == \E policy \in LoadedPolicies : Constructed(policy, "interactive")

NextView ==
    NewView \/ ClickPrevious \/ ClickNext \/ ClickAction \/ ClickTransition

SpecView == InitView /\ [][NextView]_vars

QueryState(a) == Target(a) - 1

\* C32: for every outcome of the selected action, the state the probability
\* queries read next is the state nextState makes current when that outcome
\* is selected.
C32_EngineFollowsCursor ==
    (pc = "ready" /\ cursor.thrown = NoError /\ ~cursor.end) =>
        \A j \in OutcomeIndexes(cursor.action) :
            LET advanced == nextState(setNext(Called(cursor), j))
            IN  advanced.thrown = NoError =>
                    QueryState(At(cursor.action, j)) = advanced.state

\* C33: setState completes without raising for every list of one or more
\* snapshots that have as many entries as the graph has nodes, a list of
\* one snapshot included (so that goTo(0), which reports the initial
\* snapshot alone, completes when a LinearPolicy is constructed).
C33_SetStateCompletes ==
    (/\ SetStateDone
     /\ graph.hist # <<>>
     /\ graph.thrown # LengthError) => graph.thrown = NoError

\* C34: after every cursor operation that returns, update(policy) with a
\* regenerated policy included, the action table of the cursor is the entry
\* of the current state in the transitions the cursor holds, and the
\* selected action is the entry of the action key in that table.
C34_ActionTableCurrent ==
    (pc = "ready" /\ cursor.thrown = NoError) =>
        /\ cursor.actions = TransitionsAt(cursor, cursor.state)
        /\ cursor.action = ActionAt(cursor.actions, cursor.actionNum)

\* the probabilities of the outcomes of every action sum to 1
RECURSIVE SumOfProbabilities(_)
SumOfProbabilities(action) ==
    IF action = <<>> THEN 0
    ELSE Head(action)[2] + SumOfProbabilities(Tail(action))

OutcomesSumToOne(c) ==
    \A s \in StateIndexes(c) :
        LET actions == TransitionsAt(c, s)
        IN  \A k \in DOMAIN actions : SumOfProbabilities(actions[k]) = Percent

\* a node that is energized or Damaged in a state has the same status in
\* the states the outcomes of the policy action lead to, as the cursor and
\* as the queries read them
StatusKept(c) ==
    \A s \in StateIndexes(c) :
        LET action == PolicyAction(c, s)
        IN  \A j \in DOMAIN action :
                \A t \in {QueryState(action[j]), OutcomeState(action[j])} :
                    HasIndex(c.states, t) =>
                        \A n \in NodeIndexes(c) :
                            NodeStatus(c, s, n) # "U" =>
                                NodeStatus(c, t, n) = NodeStatus(c, s, n)

\* C35: when the probabilities of the outcomes of every action sum to 1 and
\* energized or Damaged nodes keep their status in the successor states,
\* the value allEnergizationProb gives for a node from a reference state is
\* the last entry of the profile energizationProbabilities returns for that
\* node from that state.
C35_SweepIsProfileLimit ==
    (/\ pc = "ready" /\ lastOp = "energizationProbabilities"
     /\ returned.thrown = NoError
     /\ OutcomesSumToOne(cursor) /\ StatusKept(cursor)) =>
        LET all == allEnergizationProb(cursor, query.state, 0)
        IN  /\ all.thrown = NoError
            /\ At(all.value, query.nodeIndex) =
                   returned.value[Len(returned.value)]

(***************************************************************************)
(* The cursor and the graph together: every method of the cursor that      *)
(* reports ends with graph.setState(hist), on the graph of the nodes the   *)
(* snapshots of the policy describe.  The policies are those of the        *)
(* probability queries, of NumEngineStates states.                         *)
(***************************************************************************)
\* the graph the snapshots of StatusTable describe: the path 0 - 1 - 2 - 3
PanelNetwork ==
    LET n == Len(StatusTable[1])
    IN  [status |-> [i \in 1..n |-> 0],
         nodes |-> [b \in 1..n - 1 |-> <<b - 1, b>>],
         energized |-> [b \in 1..n - 1 |-> 0],
         externalBranches |-> <<0>>,
         hist |-> <<>>,
         assigned |-> <<>>,
         thrown |-> NoError]

\* the graph after a method of the cursor: this.graph.setState(hist) with
\* the list the method has built, unless the method threw before it
Reported(g, before, after) ==
    IF after.thrown # NoError /\ after.shown = before.shown THEN g
    ELSE Graph_setState(Called(g), after.shown)

FrameSetAction ==
    /\ pc = "ready"
    /\ \E actionNum \in ActionKeys(cursor.actions) :
          cursor' = setAction(Called(cursor), actionNum, 0)
    /\ graph' = Reported(graph, cursor, cursor')
    /\ lastOp' = "setAction"
    /\ UNCHANGED <<kind, pc, current, probVars, twin, uiVars>>

FrameSetNext ==
    /\ pc = "ready"
    /\ \E i \in OutcomeIndexes(cursor.action) :
          cursor' = setNext(Called(cursor), i)
    /\ graph' = Reported(graph, cursor, cursor')
    /\ lastOp' = "setNext"
    /\ UNCHANGED <<kind, pc, current, probVars, twin, uiVars>>

FrameNextState ==
    /\ pc = "ready"
    /\ Len(cursor.previousStates) < MaxHist
    /\ cursor' = nextState(Called(cursor))
    /\ graph' = Reported(graph, cursor, cursor')
    /\ lastOp' = "nextState"
    /\ UNCHANGED <<kind, pc, current, probVars, twin, uiVars>>

FramePreviousState ==
    /\ pc = "ready"
    /\ cursor' = previousState(Called(cursor))
    /\ graph' = Reported(graph, cursor, cursor')
    /\ lastOp' = "previousState"
    /\ UNCHANGED <<kind, pc, current, probVars, twin, uiVars>>

\* new InteractivePolicy(graph, policy): setState(0) reports to the graph
InitFrames ==
    \E policy \in EnginePolicies :
        /\ cursor = InteractivePolicy(policy)
        /\ graph = Reported(PanelNetwork, NewCursor(policy), cursor)
        /\ kind = "interactive" /\ pc = "ready"
        /\ lastOp = "constructor" /\ current = 0
        /\ queue = <<>> /\ results = <<>>
        /\ query = NoQuery /\ returned = Returned(<<>>)
        /\ twin = NoTwin /\ view = NoView
        /\ panel = NoPanel /\ editor = NoEdit

NextFrames ==
    FrameSetAction \/ FrameSetNext \/ FrameNextState \/ FramePreviousState

SpecFrames == InitFrames /\ [][NextFrames]_vars

\* C36: while the cursor is at end the graph shows the last frame, frozen:
\* the report has completed, no branch has the flag of the transition being
\* shown (energized = 2) and no node the status of a node being energized
\* (2); every node energized in the current state has the status 1 and every
\* branch the report assigned has energized = 1.
C36_FreezeOnLastFrame ==
    (pc = "ready" /\ cursor.end) =>
        /\ graph.thrown = NoError
        /\ graph.hist = cursor.shown
        /\ \A b \in DOMAIN graph.energized : graph.energized[b] # 2
        /\ \A i \in DOMAIN graph.status : graph.status[i] # 2
        /\ \A i \in DOMAIN graph.status :
               Energized(StateAt(cursor, cursor.state)[i]) => graph.status[i] = 1
        /\ \A k \in DOMAIN graph.assigned :
               \A j \in DOMAIN graph.assigned[k] :
                   graph.energized[graph.assigned[k][j].branch + 1] = 1

\* nextState has led to a terminal state in which a node is energized, by
\* a transition in which the graph assigned a branch
C36_Witness ==
    /\ pc = "ready" /\ cursor.end /\ lastOp = "nextState"
    /\ Len(graph.assigned) >= 2
    /\ graph.assigned[Len(graph.assigned)] = <<>>
    /\ graph.assigned[Len(graph.assigned) - 1] # <<>>
    /\ \E i \in DOMAIN graph.status : graph.status[i] = 1
    /\ \E b \in DOMAIN graph.energized : graph.energized[b] = 1

(***************************************************************************)
(* The policy screen (Menu.js, Policy.js): the settings form issues a      *)
(* request for a policy (requestNewPolicy) and shows a spinner; the        *)
(* response, when it arrives, is parsed and loaded (loadPolicy), and a     *)
(* click on a mode constructs the cursor and its view.  The button "New    *)
(* policy" is outside the screen and shows the settings form again         *)
(* (resetPolicyScreen), also while a request is in flight.  Responses      *)
(* arrive in any order.  `loaded` is the request whose policy the screen   *)
(* holds and `viewOf` the request whose policy policyView was constructed  *)
(* from; 0 is none.                                                        *)
(***************************************************************************)
\* policyView = null: no cursor
NoCursor == NewCursor([states |-> <<>>, transitions |-> <<>>, policy |-> <<>>])

\* requestNewPolicy(div, graph, settings), up to the response
Requested(p) ==
    [p EXCEPT !.issued = @ + 1, !.pending = @ \cup {p.issued + 1},
              !.screen = "waiting", !.loaded = 0]

\* removePolicy()
Removed(p) == [p EXCEPT !.viewOf = 0]

\* selectPolicyView(div, graph), the form it renders
Settings(p) == [p EXCEPT !.screen = "settings", !.loaded = 0]

\* a click on "Generate Policy"
GeneratePolicy ==
    /\ pc = "ready" /\ panel.screen = "settings"
    /\ panel.issued < MaxRequests
    /\ panel' = Requested(panel)
    /\ UNCHANGED <<cursor, kind, pc, current, lastOp, probVars, graph, twin,
                   view, editor>>

\* a click on "New policy": resetPolicyScreen
ResetPolicyScreen ==
    /\ pc = "ready" /\ panel.screen # "settings"
    /\ panel' = Settings(Removed(panel))
    /\ cursor' = NoCursor /\ view' = NoView
    /\ graph' = emptyState(graph)
    /\ UNCHANGED <<kind, pc, current, lastOp, probVars, twin, editor>>

\* the response to a request in flight arrives: loadPolicy
PolicyResponse ==
    /\ pc = "ready"
    /\ \E id \in panel.pending, policy \in RegeneratedPolicies :
          panel' = [panel EXCEPT !.pending = @ \ {id},
                                 !.answered = @ \cup {id},
                                 !.screen = "select",
                                 !.loaded = id,
                                 !.policy = policy]
    /\ UNCHANGED <<cursor, kind, pc, current, lastOp, probVars, graph, twin,
                   view, editor>>

\* a request in flight fails: the screen offers Retry and Go Back
PolicyError ==
    /\ pc = "ready"
    /\ \E id \in panel.pending :
          panel' = [panel EXCEPT !.pending = @ \ {id},
                                 !.screen = "failed",
                                 !.loaded = 0]
    /\ UNCHANGED <<cursor, kind, pc, current, lastOp, probVars, graph, twin,
                   view, editor>>

\* a click on Retry: requestNewPolicy(...lastRequestedPolicy)
Retry ==
    /\ pc = "ready" /\ panel.screen = "failed"
    /\ panel.issued < MaxRequests
    /\ panel' = Requested(panel)
    /\ UNCHANGED <<cursor, kind, pc, current, lastOp, probVars, graph, twin,
                   view, editor>>

\* a click on Go Back: selectPolicyView
GoBack ==
    /\ pc = "ready" /\ panel.screen = "failed"
    /\ panel' = Settings(panel)
    /\ graph' = emptyState(graph)
    /\ UNCHANGED <<cursor, kind, pc, current, lastOp, probVars, twin, view,
                   editor>>

\* a click on Interactive Mode: policyView = new InteractivePolicyView(
\* graph, div, new InteractivePolicy(graph, policy), options)
InteractiveMode ==
    /\ pc = "ready" /\ panel.screen = "select"
    /\ cursor' = InteractivePolicy(panel.policy)
    /\ graph' = Reported(graph, NewCursor(panel.policy), cursor')
    /\ view' = policyNavigator(cursor')
    /\ panel' = [panel EXCEPT !.screen = "view", !.viewOf = panel.loaded]
    /\ kind' = "interactive" /\ lastOp' = "constructor"
    /\ UNCHANGED <<pc, current, probVars, twin, editor>>

\* the policy screen as resetPolicyScreen first shows it
InitRequests ==
    /\ panel = [screen |-> "settings", issued |-> 0, pending |-> {},
                answered |-> {}, loaded |-> 0, viewOf |-> 0,
                policy |-> [states |-> <<>>, transitions |-> <<>>,
                            policy |-> <<>>]]
    /\ cursor = NoCursor /\ graph = PanelNetwork
    /\ kind = "interactive" /\ pc = "ready"
    /\ lastOp = "none" /\ current = 0
    /\ queue = <<>> /\ results = <<>>
    /\ query = NoQuery /\ returned = Returned(<<>>)
    /\ twin = NoTwin /\ view = NoView /\ editor = NoEdit

NextRequests ==
    \/ GeneratePolicy \/ ResetPolicyScreen \/ PolicyResponse \/ PolicyError
    \/ Retry \/ GoBack \/ InteractiveMode

SpecRequests == InitRequests /\ [][NextRequests]_vars

\* C37: a cursor is constructed from the policy of a response that has
\* arrived, and the policy the screen holds is that of the request issued
\* last, in whatever order the responses of the requests in flight arrive:
\* the response to a request that a later request has superseded is not
\* loaded.
C37_LatestRequestLoaded ==
    /\ panel.viewOf # 0 => panel.viewOf \in panel.answered
    /\ panel.loaded # 0 => panel.loaded = panel.issued

(***************************************************************************)
(* Update mode (Graph.nodeOnUpdate, InteractivePolicyView.updateMode):     *)
(* "Update Bus" in the context menu of a node shows the panel of the node, *)
(* with the buttons that set its probability of failure to 0 or 1, and     *)
(* puts the view in update mode; Done requests a policy for the updated    *)
(* graph and, when the response arrives, updates the cursor; Cancel calls  *)
(* Graph.cancelUpdate.  Probabilities are in percent.  `atEntry` records   *)
(* the probabilities of the nodes when update mode was entered.            *)
(***************************************************************************)
\* updateMode() has cleared the side panel: no control of the navigator
UpdateView == [NoView EXCEPT !.rendered = TRUE]

\* the click handler of "Set probability of failure = p" of the node
SetProbabilityOfFailure(ed, p) ==
    LET i == ed.node + 1
    IN  [ed EXCEPT !.originalPf[i] = IF @ = Undefined THEN ed.pf[i] ELSE @,
                   !.pf[i] = p]

\* Graph.cancelUpdate(): BottomRightPanel.hide(); every node that has the
\* field originalPf takes it as pf
cancelUpdate(ed) ==
    [ed EXCEPT !.node = Undefined,
               !.pf = [i \in DOMAIN ed.pf |->
                          IF ed.originalPf[i] # Undefined THEN ed.originalPf[i]
                          ELSE ed.pf[i]]]

\* a click on "Update Bus" in the context menu of a node
UpdateBus ==
    /\ pc = "ready" /\ view.rendered
    /\ \E node \in 0..NumNodes - 1 :
          editor' = [editor EXCEPT !.node = node,
                                   !.mode = "update",
                                   !.atEntry = IF editor.mode = "navigate"
                                               THEN editor.pf ELSE @]
    /\ view' = UpdateView
    /\ lastOp' = "updateMode"
    /\ UNCHANGED <<cursor, kind, pc, current, probVars, graph, twin, panel>>

\* a click on one of the two buttons of the panel of the node
SetPf ==
    /\ pc = "ready" /\ editor.node # Undefined
    /\ \E p \in {0, Percent} : editor' = SetProbabilityOfFailure(editor, p)
    /\ lastOp' = "nodeOnUpdate"
    /\ UNCHANGED <<cursor, kind, pc, current, probVars, graph, twin, view,
                   panel>>

\* a click on Done: the policy of the updated graph is requested
Done ==
    /\ pc = "ready" /\ editor.mode = "update"
    /\ editor' = [editor EXCEPT !.mode = "waiting"]
    /\ lastOp' = "requestPolicy"
    /\ UNCHANGED <<cursor, kind, pc, current, probVars, graph, twin, view,
                   panel>>

\* the response arrives: this.policy.update(policy); this.policyNavigator().
\* The report of the cursor to the graph shows the information of the node
\* in the place of its update panel.  An exception of update is caught by
\* the handler of a failed request.
DoneResponse ==
    /\ pc = "ready" /\ editor.mode = "waiting"
    /\ \E policy \in RegeneratedPolicies :
          cursor' = update(Called(cursor), policy, Undefined)
    /\ view' = Refreshed(cursor', view)
    /\ editor' = IF cursor'.thrown = NoError
                 THEN [editor EXCEPT !.mode = "navigate", !.node = Undefined]
                 ELSE [editor EXCEPT !.mode = "failed"]
    /\ lastOp' = "update"
    /\ UNCHANGED <<kind, pc, current, probVars, graph, twin, panel>>

\* the request fails: the panel offers to go back
DoneError ==
    /\ pc = "ready" /\ editor.mode = "waiting"
    /\ editor' = [editor EXCEPT !.mode = "failed"]
    /\ lastOp' = "requestPolicy"
    /\ UNCHANGED <<cursor, kind, pc, current, probVars, graph, twin, view,
                   panel>>

\* a click on Go back: updateMode()
BackToUpdate ==
    /\ pc = "ready" /\ editor.mode = "failed"
    /\ editor' = [editor EXCEPT !.mode = "update"]
    /\ lastOp' = "updateMode"
    /\ UNCHANGED <<cursor, kind, pc, current, probVars, graph, twin, view,
                   panel>>

\* a click on Cancel: this.graph.cancelUpdate(); this.policyNavigator()
Cancel ==
    /\ pc = "ready" /\ editor.mode = "update"
    /\ editor' = [cancelUpdate(editor) EXCEPT !.mode = "navigate"]
    /\ view' = policyNavigator(cursor)
    /\ lastOp' = "cancelUpdate"
    /\ UNCHANGED <<cursor, kind, pc, current, probVars, graph, twin, panel>>

InitEdit == \E policy \in RegeneratedPolicies : Constructed(policy, "interactive")

NextEdit ==
    \/ NewView \/ UpdateBus \/ SetPf \/ Done \/ DoneResponse \/ DoneError
    \/ BackToUpdate \/ Cancel

SpecEdit == InitEdit /\ [][NextEdit]_vars

\* C38: cancelUpdate gives every node the probability of failure it had
\* when the update mode that is cancelled was entered, whatever update
\* sessions came before, those completed with Done included.
C38_CancelRestoresEntry ==
    lastOp = "cancelUpdate" => editor.pf = editor.atEntry

====
